---- MODULE Spec2Model ----
(***************************************************************************)
(* Model of the configuration-mutation core of openclaw-easyset:           *)
(*   src/src/core/openclaw-config.js   (load / save / update, path tools)  *)
(*   src/unnamed/part_012              (core/plugin-manager.js)            *)
(*   src/src/commands/security.js      (audit, profiles, custom setup)     *)
(*   src/src/core/health-checker.js    (autoFix)                           *)
(*   src/unnamed/part_008              (commands/doctor.js)                *)
(***************************************************************************)
EXTENDS Integers, Sequences, FiniteSets, TLC

(***************************************************************************)
(* JavaScript values.  Every value is a record [t, v]; t is the type tag,  *)
(* so two values of different types are unequal by their tag alone.        *)
(***************************************************************************)
Undefined == [t |-> "undefined", v |-> 0]

Null == [t |-> "null", v |-> 0]

B(b) == [t |-> "bool", v |-> b]

N(n) == [t |-> "num", v |-> n]

S(s) == [t |-> "str", v |-> s]

A(seq) == [t |-> "arr", v |-> seq]

O(f) == [t |-> "obj", v |-> f]

EmptyMap == [k \in {} |-> Undefined]

EmptyObj == O(EmptyMap)

\* The characters of the string literals the model uses (JS strings are
\* indexable: spreading or indexing a string yields its characters).
Chars(s) ==
  CASE s = "" -> <<>>
    [] s = "xy" -> <<"x", "y">>
    [] s = "k1" -> <<"k", "1">>
    [] s = "m1" -> <<"m", "1">>
    [] s = "m2" -> <<"m", "2">>
    [] s = "open" -> <<"o", "p", "e", "n">>
    [] s = "pairing" -> <<"p", "a", "i", "r", "i", "n", "g">>
    [] s = "allowlist" -> <<"a", "l", "l", "o", "w", "l", "i", "s", "t">>
    [] s = "lan" -> <<"l", "a", "n">>
    [] s = "::1" -> <<":", ":", "1">>
    [] s = "127.0.0.1" -> <<"1", "2", "7", ".", "0", ".", "0", ".", "1">>
    [] s = "memory-lancedb" ->
         <<"m", "e", "m", "o", "r", "y", "-", "l", "a", "n", "c", "e", "d", "b">>
    [] s = "llm-task" -> <<"l", "l", "m", "-", "t", "a", "s", "k">>
    [] s = "other" -> <<"o", "t", "h", "e", "r">>
    [] s = "anthropic" -> <<"a", "n", "t", "h", "r", "o", "p", "i", "c">>
    [] s = "claude-sonnet-4-5" ->
         <<"c", "l", "a", "u", "d", "e", "-", "s", "o", "n", "n", "e", "t", "-",
           "4", "-", "5">>
    [] s = "text-embedding-3-small" ->
         <<"t", "e", "x", "t", "-", "e", "m", "b", "e", "d", "d", "i", "n", "g",
           "-", "3", "-", "s", "m", "a", "l", "l">>

Digit == <<"0", "1", "2", "3", "4", "5", "6", "7", "8", "9">>

\* The property name of array index i (String(i)), for i < 100.
IdxKey(i) == IF i < 10 THEN Digit[i + 1]
             ELSE Digit[(i \div 10) + 1] \o Digit[(i % 10) + 1]

\* JS truthiness (ToBoolean).
Truthy(x) ==
  CASE x.t = "undefined" -> FALSE
    [] x.t = "null" -> FALSE
    [] x.t = "bool" -> x.v
    [] x.t = "num" -> x.v # 0
    [] x.t = "str" -> x.v # ""
    [] OTHER -> TRUE

\* typeof x === 'object'
TypeofObject(x) == x.t \in {"null", "arr", "obj"}

\* Array.isArray(x)
IsArray(x) == x.t = "arr"

\* x && typeof x === 'object' && !Array.isArray(x)
IsPlainObject(x) == Truthy(x) /\ TypeofObject(x) /\ ~IsArray(x)

\* The characters cs as string values.
StrValues(cs) == [i \in 1..Len(cs) |-> S(cs[i])]

\* The elements of an indexable value as a sequence of values.
Elems(x) ==
  CASE x.t = "arr" -> x.v
    [] x.t = "str" -> StrValues(Chars(x.v))
    [] OTHER -> <<>>

\* The index properties "0", "1", ... of the elements es, as a map.
IndexMap(es) ==
  [k \in {IdxKey(i - 1) : i \in 1..Len(es)} |->
     es[CHOOSE i \in 1..Len(es) : IdxKey(i - 1) = k]]

\* Own enumerable properties of x as a map: what {...x} copies and what
\* `for (key in x)` enumerates.
OwnProps(x) == IF x.t = "obj" THEN x.v ELSE IndexMap(Elems(x))

\* props[k], or other when props has no k.
PropOr(props, k, other) == IF k \in DOMAIN props THEN props[k] ELSE other

\* x.length of an array or a string.
LengthOf(x) == IF x.t \in {"arr", "str"} THEN N(Len(Elems(x))) ELSE Undefined

\* Property read x[k] (undefined when absent).  x is never null/undefined at
\* the call sites modelled.
Get(x, k) ==
  PropOr(OwnProps(x), k, IF k = "length" THEN LengthOf(x) ELSE Undefined)

\* `k in x` for an object-typed x.
HasKey(x, k) == k \in DOMAIN OwnProps(x) \/ (k = "length" /\ x.t = "arr")

\* a || b
Or(a, b) == IF Truthy(a) THEN a ELSE b

\* x || {}
OrEmpty(x) == Or(x, EmptyObj)

\* Assignment x[k] = val on a plain object x.
Put(x, k, val) ==
  O([j \in DOMAIN x.v \cup {k} |-> IF j = k THEN val ELSE x.v[j]])

\* delete x[k] on a plain object x.
Del(x, k) == O([j \in DOMAIN x.v \ {k} |-> x.v[j]])

(***************************************************************************)
(* openclaw-config.js: path tools                                          *)
(***************************************************************************)
\* A path is modelled by its '.'-separated segments; splitPath drops the
\* empty ones (filter(Boolean)).
splitPath(path) == SelectSeq(path, LAMBDA seg : seg # "")

RECURSIVE getPathKeys(_, _, _)
getPathKeys(current, keys, defaultValue) ==
  IF keys = <<>> THEN current
  ELSE IF ~Truthy(current) \/ ~TypeofObject(current) \/ ~HasKey(current, Head(keys))
       THEN defaultValue
       ELSE getPathKeys(Get(current, Head(keys)), Tail(keys), defaultValue)

getPath(target, path, defaultValue) ==
  getPathKeys(target, splitPath(path), defaultValue)

RECURSIVE setPathKeys(_, _, _)
setPathKeys(current, keys, value) ==
  IF Len(keys) = 0 THEN Put(current, "undefined", value)
  ELSE IF Len(keys) = 1 THEN Put(current, keys[1], value)
  ELSE LET child == Get(current, keys[1])
           next == IF ~Truthy(child) \/ ~TypeofObject(child) \/ IsArray(child)
                   THEN EmptyObj ELSE child
       IN Put(current, keys[1], setPathKeys(next, Tail(keys), value))

setPath(target, path, value) == setPathKeys(target, splitPath(path), value)

RECURSIVE deepMerge(_, _)
deepMerge(target, source) ==
  LET out == OwnProps(target)
      src == OwnProps(source)
  IN O([key \in DOMAIN out \cup DOMAIN src |->
          IF key \in DOMAIN src
          THEN IF IsPlainObject(src[key])
               THEN deepMerge(OrEmpty(Get(target, key)), src[key])
               ELSE src[key]
          ELSE out[key]])

mergePath(target, path, value) ==
  LET existing == getPath(target, path, EmptyObj)
      base == IF IsPlainObject(existing) THEN existing ELSE EmptyObj
  IN setPath(target, path, deepMerge(base, value))

\* array.includes(value) for the primitive values the model pushes.
Includes(array, value) == \E i \in DOMAIN array.v : array.v[i] = value

pushUniquePath(target, path, value) ==
  LET existing == getPath(target, path, A(<<>>))
      array == IF IsArray(existing) THEN existing ELSE A(<<>>)
  IN setPath(target, path,
             IF Includes(array, value) THEN array ELSE A(Append(array.v, value)))

\* delete current[key]: a property of an object is removed, an element of
\* an array becomes a hole, which reads as undefined.
Delete(current, key) ==
  IF current.t = "obj" THEN Del(current, key)
  ELSE A([i \in DOMAIN current.v |->
            IF IdxKey(i - 1) = key THEN Undefined ELSE current.v[i]])

RECURSIVE removePathKeys(_, _)
removePathKeys(current, keys) ==
  IF Len(keys) = 1 THEN Delete(current, keys[1])
  ELSE LET child == Get(current, keys[1])
       IN IF ~Truthy(child) \/ ~TypeofObject(child) THEN current
          ELSE IF current.t = "obj"
               THEN Put(current, keys[1], removePathKeys(child, Tail(keys)))
               ELSE A([i \in DOMAIN current.v |->
                         IF IdxKey(i - 1) = keys[1]
                         THEN removePathKeys(child, Tail(keys)) ELSE current.v[i]])

removePath(target, path) ==
  IF Len(splitPath(path)) = 0 THEN target ELSE removePathKeys(target, splitPath(path))

(***************************************************************************)
(* openclaw-config.js: the file as text, parse and serialise               *)
(*                                                                         *)
(* A file's text is [kind, doc]: kind "json" is text that JSON.parse       *)
(* accepts, "json5" text that only JSON5.parse accepts (unquoted keys,     *)
(* single quotes, comments, trailing commas), "empty" and "partial" a file *)
(* truncated by an unfinished write, "garbage" any other unparsable text.  *)
(* doc is the value the text denotes.                                      *)
(***************************************************************************)
NoFile == [kind |-> "absent", doc |-> Undefined]

Text(kind, doc) == [kind |-> kind, doc |-> doc]

Truncated == Text("empty", Undefined)

Partial == Text("partial", Undefined)

\* A parse that tries the permissive dialect first.
parseJson5First(raw) ==
  IF raw.kind \in {"json", "json5"}
  THEN [ok |-> TRUE, config |-> raw.doc, format |-> "json5"]
  ELSE [ok |-> FALSE, config |-> Undefined, format |-> "none"]

parseOpenClawConfig(raw) ==
  IF raw.kind = "json" THEN [ok |-> TRUE, config |-> raw.doc, format |-> "json"]
  ELSE IF raw.kind = "json5"
       THEN [ok |-> TRUE, config |-> raw.doc, format |-> "json5"]
       ELSE [ok |-> FALSE, config |-> Undefined, format |-> "none"]

\* JSON5.stringify(x, null, 2) writes unquoted keys, single-quoted strings and
\* trailing commas; its output is also strict JSON only for a value with no
\* member and no string: {} or [] or a number, boolean or null.
Json5OutputIsStrict(x) ==
  CASE x.t = "obj" -> DOMAIN x.v = {}
    [] x.t = "arr" -> x.v = <<>>
    [] x.t = "str" -> FALSE
    [] OTHER -> TRUE

\* `${serialized}\n` of saveOpenClawConfig.
Serialize(config, format) ==
  IF format = "json5" /\ ~Json5OutputIsStrict(config)
  THEN Text("json5", config)
  ELSE Text("json", config)

\* A file two writers wrote to through descriptors that were both open: the
\* text of the later write followed by the end of the longer, earlier one.
\* It is not parsable: text follows the closing brace of the later write.
Mixed == Text("mixed", Undefined)

\* The keys of the model that are not identifier names (they hold '-');
\* JSON5.stringify quotes them and writes the others bare.
Json5Quoted(key) == key \in {"memory-lancedb", "llm-task"}

\* The number of characters JSON.stringify(x, null, 2) or, with json5,
\* JSON5.stringify(x, null, 2) writes for x at nesting depth `depth`: a
\* member takes a line of its own, indented two spaces per level, members
\* are separated by a comma (JSON5 puts one after the last member too) and
\* an undefined member of an object is left out.
RECURSIVE StringifyLength(_, _, _)
RECURSIVE MembersLength(_, _, _, _)
StringifyLength(x, depth, json5) ==
  CASE x.t = "str" -> Len(x.v) + 2
    [] x.t = "num" -> IF x.v < 10 THEN 1 ELSE IF x.v < 100 THEN 2
                      ELSE IF x.v < 1000 THEN 3 ELSE IF x.v < 10000 THEN 4 ELSE 5
    [] x.t = "bool" -> IF x.v THEN 4 ELSE 5
    [] x.t \in {"null", "undefined"} -> 4
    [] x.t \in {"obj", "arr"} ->
         LET keys == {k \in DOMAIN x.v : x.t = "arr" \/ x.v[k].t # "undefined"}
         IN IF keys = {} THEN 2
            ELSE 2 + MembersLength(x, keys, depth + 1, json5)
                 + (IF json5 THEN 0 ELSE -1) + 2 * depth + 1

\* The lines of the members `keys` of x, each with the separator after it.
MembersLength(x, keys, depth, json5) ==
  IF keys = {} THEN 0
  ELSE LET k == CHOOSE key \in keys : TRUE
       IN 2 * depth
          + (IF x.t = "arr" THEN 0
             ELSE Len(k) + (IF json5 /\ ~Json5Quoted(k) THEN 0 ELSE 2) + 2)
          + StringifyLength(x.v[k], depth, json5) + 2
          + MembersLength(x, keys \ {k}, depth, json5)

\* The length of a text saveOpenClawConfig wrote: `${serialized}\n`.
TextLength(file) == StringifyLength(file.doc, 0, file.kind = "json5") + 1

\* What the file can hold after writeFileSync wrote data at offset 0 through
\* a descriptor that was opened (and the file truncated) before `existing`
\* got there: data alone when the file was still empty or held a text no
\* longer than data, data followed by the rest of a longer text otherwise.
\* The length of a partly written or mixed text is not known.
WriteOutcomes(existing, data) ==
  CASE existing.kind \in {"json", "json5"} ->
         IF TextLength(existing) > TextLength(data) THEN {Mixed} ELSE {data}
    [] existing.kind \in {"partial", "mixed"} -> {data, Mixed}
    [] OTHER -> {data}

\* x?.[k]
OptGet(x, k) == IF x.t \in {"undefined", "null"} THEN Undefined ELSE Get(x, k)

(***************************************************************************)
(* core/plugin-manager.js                                                  *)
(***************************************************************************)
RECURSIVE PluginManager_deepMerge(_, _)
PluginManager_deepMerge(target, source) ==
  LET out == OwnProps(target)
      src == OwnProps(source)
  IN O([key \in DOMAIN out \cup DOMAIN src |->
          IF key \in DOMAIN src
          THEN IF IsPlainObject(src[key])
               THEN PluginManager_deepMerge(OrEmpty(Get(target, key)), src[key])
               ELSE src[key]
          ELSE out[key]])

\* The names of the entries of plugins.entries with a truthy `enabled`.
getEnabledPlugins(config) ==
  LET entries == OptGet(OptGet(config, "plugins"), "entries")
  IN IF ~Truthy(entries) THEN {}
     ELSE {name \in DOMAIN OwnProps(entries) :
             Truthy(Get(OwnProps(entries)[name], "enabled"))}

validatePluginConfig(name, config) ==
  IF name = "memory-lancedb"
  THEN Truthy(OptGet(Get(config, "embedding"), "apiKey"))
       /\ Truthy(OptGet(Get(config, "embedding"), "model"))
  ELSE IF name = "llm-task"
       THEN Truthy(Get(config, "defaultProvider"))
            /\ Truthy(Get(config, "defaultModel"))
       ELSE TRUE

\* if (!obj[key]) obj[key] = {}
EnsureObject(obj, key) == Put(obj, key, OrEmpty(Get(obj, key)))

\* this.config.plugins.entries[name] = {enabled: true, config: mergedConfig},
\* mergedConfig being the existing entry's config (or {}) merged with
\* pluginConfig.
SetEntry(entries, name, pluginConfig) ==
  Put(entries, name,
      O([enabled |-> B(TRUE),
         config |-> PluginManager_deepMerge(
                      OrEmpty(OptGet(Get(entries, name), "config")), pluginConfig)]))

\* if (slot) this.config.plugins.slots[slot] = name; slot is "" for the
\* default null.
SetSlot(slots, slot, name) == IF slot # "" THEN Put(slots, slot, S(name)) ELSE slots

\* The plugins sub-tree after enablePlugin; `plugins` has entries and slots.
EnabledIn(plugins, name, pluginConfig, slot) ==
  O([k \in DOMAIN plugins.v |->
       IF k = "entries" THEN SetEntry(plugins.v[k], name, pluginConfig)
       ELSE IF k = "slots" THEN SetSlot(plugins.v[k], slot, name)
       ELSE plugins.v[k]])

\* enablePlugin on a loaded config (this.config is an object).
enablePlugin(config, name, pluginConfig, slot) ==
  Put(config, "plugins",
      EnabledIn(EnsureObject(EnsureObject(OrEmpty(Get(config, "plugins")), "entries"),
                             "slots"),
                name, pluginConfig, slot))

(***************************************************************************)
(* commands/security.js: profiles and the mutators passed to               *)
(* updateOpenClawConfig                                                    *)
(***************************************************************************)
LocalProxies == A(<<S("127.0.0.1"), S("::1")>>)

SECURITY_PROFILES ==
  [minimal |->
     O([pairing |-> B(FALSE), webhookVerification |-> B(FALSE),
        trustedProxies |-> A(<<>>), rateLimiting |-> B(FALSE),
        apiKeyRotation |-> B(FALSE)]),
   standard |->
     O([pairing |-> B(TRUE), webhookVerification |-> B(TRUE),
        trustedProxies |-> LocalProxies, rateLimiting |-> B(TRUE),
        apiKeyRotation |-> B(FALSE)]),
   hardened |->
     O([pairing |-> B(TRUE), webhookVerification |-> B(TRUE),
        trustedProxies |-> LocalProxies, rateLimiting |-> B(TRUE),
        apiKeyRotation |-> B(TRUE), ipAllowlist |-> B(TRUE),
        auditLogging |-> B(TRUE)])]

ProfileNames == DOMAIN SECURITY_PROFILES

\* The channel list of the three mutator loops.
MutatorChannels == <<"telegram", "imessage", "whatsapp", "discord", "slack">>

\* The channel list of getDmPolicies.
AuditChannels ==
  <<"whatsapp", "telegram", "signal", "imessage", "mattermost", "googlechat">>

\* tools.get(`channels.${channel}`) is an object (typeof 'object', truthy).
ChannelIsObject(config, channel) ==
  LET channelConfig == getPath(config, <<"channels", channel>>, Undefined)
  IN Truthy(channelConfig) /\ TypeofObject(channelConfig)

\* Loop of profile.settings.pairing === true, from channel i on.
RECURSIVE PairingLoop(_, _)
PairingLoop(config, i) ==
  IF i > Len(MutatorChannels) THEN config
  ELSE LET channel == MutatorChannels[i]
           currentPolicy == getPath(config, <<"channels", channel, "dmPolicy">>, Undefined)
       IN IF ChannelIsObject(config, channel)
             /\ (~Truthy(currentPolicy) \/ currentPolicy = S("open"))
          THEN PairingLoop(setPath(config, <<"channels", channel, "dmPolicy">>,
                                   S("pairing")), i + 1)
          ELSE PairingLoop(config, i + 1)

\* Loop of profile.settings.pairing === false, from channel i on.
RECURSIVE OpenLoop(_, _)
OpenLoop(config, i) ==
  IF i > Len(MutatorChannels) THEN config
  ELSE LET channel == MutatorChannels[i]
           currentPolicy == getPath(config, <<"channels", channel, "dmPolicy">>, Undefined)
       IN IF ChannelIsObject(config, channel) /\ ~Truthy(currentPolicy)
          THEN OpenLoop(setPath(config, <<"channels", channel, "dmPolicy">>,
                                S("open")), i + 1)
          ELSE OpenLoop(config, i + 1)

\* The mutator of applySecurityProfile.
ProfileMutator(config, settings) ==
  LET c1 == mergePath(config, <<"security">>, settings)
      c2 == IF IsArray(Get(settings, "trustedProxies"))
            THEN setPath(c1, <<"gateway", "trustedProxies">>,
                         Get(settings, "trustedProxies"))
            ELSE c1
      c3 == IF Get(settings, "pairing") = B(TRUE) THEN PairingLoop(c2, 1) ELSE c2
  IN IF Get(settings, "pairing") = B(FALSE) THEN OpenLoop(c3, 1) ELSE c3

\* Loop of the custom setup's mutator, from channel i on.
RECURSIVE CustomLoop(_, _, _)
CustomLoop(config, pairing, i) ==
  IF i > Len(MutatorChannels) THEN config
  ELSE LET channel == MutatorChannels[i]
           currentPolicy == getPath(config, <<"channels", channel, "dmPolicy">>, Undefined)
       IN IF ChannelIsObject(config, channel)
             /\ (~Truthy(currentPolicy) \/ currentPolicy = S("open")
                 \/ currentPolicy = S("pairing"))
          THEN CustomLoop(setPath(config, <<"channels", channel, "dmPolicy">>,
                                  IF pairing THEN S("pairing") ELSE S("open")),
                          pairing, i + 1)
          ELSE CustomLoop(config, pairing, i + 1)

\* plannedSecurityConfig of interactiveSecuritySetup; answers is
\* [pairing, webhookVerification, rateLimiting : BOOLEAN, trustedProxies : array].
plannedSecurityConfig(answers) ==
  O([pairing |-> B(answers.pairing),
     webhookVerification |-> B(answers.webhookVerification),
     rateLimiting |-> B(answers.rateLimiting),
     trustedProxies |-> answers.trustedProxies])

\* The mutator of interactiveSecuritySetup.
CustomMutator(config, answers) ==
  LET c1 == mergePath(config, <<"security">>, plannedSecurityConfig(answers))
      c2 == setPath(c1, <<"gateway", "trustedProxies">>, answers.trustedProxies)
  IN CustomLoop(c2, answers.pairing, 1)

\* value.dmPolicy || value.dm?.policy for a truthy channel value.
DmPolicyOf(value) == Or(Get(value, "dmPolicy"), OptGet(Get(value, "dm"), "policy"))

\* What getDmPolicies looks at for a channel whose config value is `value`.
PolicyEntry(channel, value) ==
  [channel |-> channel, value |-> value,
   policy |-> IF Truthy(value) THEN DmPolicyOf(value) ELSE Undefined]

\* [channel, policy] of each entry.
PolicyPairs(found) ==
  [i \in 1..Len(found) |-> [channel |-> found[i].channel, policy |-> found[i].policy]]

\* getDmPolicies: the [channel, policy] pairs of the audited channels whose
\* value and policy are truthy, in the order of the channel list.
getDmPolicies(config) ==
  PolicyPairs(SelectSeq([i \in 1..Len(AuditChannels) |->
                           PolicyEntry(AuditChannels[i],
                                       OptGet(Get(config, "channels"), AuditChannels[i]))],
                        LAMBDA e : Truthy(e.value) /\ Truthy(e.policy)))

(***************************************************************************)
(* commands/security.js: the audit                                         *)
(***************************************************************************)
\* Permission bits of a path that does not exist.
Absent == -1

\* checkFilePermissions: mode is the path's permission bits, Absent when stat
\* fails.  0o700 = 448, 0o077 = 63.
checkFilePermissions(mode) ==
  IF mode = Absent THEN [secure |-> FALSE, ownerOnly |-> FALSE]
  ELSE [secure |-> mode <= 448, ownerOnly |-> mode % 64 = 0]

\* One check's contribution: points earned and possible, and the entries it
\* pushes (an issue is [title, autoFix], autoFix naming the path its closure
\* chmods, "" when the issue carries none).
Contribution(max, score, issues, warnings, passed) ==
  [maxScore |-> max, score |-> score, issues |-> issues, warnings |-> warnings,
   passed |-> passed]

Skipped == Contribution(0, 0, <<>>, <<>>, <<>>)

Issue(title, autoFix) == [title |-> title, autoFix |-> autoFix]

\* A DM-policy check that reports the open policy and still awards its
\* points.
Check1KeepsPoints(config) ==
  Contribution(20, 20, <<Issue("Open DM policy detected", "")>>, <<>>, <<>>)

Check1(config) ==
  LET openPolicies == SelectSeq(getDmPolicies(config), LAMBDA p : p.policy = S("open"))
  IN IF Len(openPolicies) = 0
     THEN Contribution(20, 20, <<>>, <<>>, <<"DM policies are not publicly open">>)
     ELSE Contribution(20, 0, <<Issue("Open DM policy detected", "")>>, <<>>, <<>>)

Check2(config) ==
  LET auth == OptGet(OptGet(config, "gateway"), "auth")
  IN IF Truthy(OptGet(auth, "token")) \/ Truthy(OptGet(auth, "password"))
     THEN Contribution(15, 15, <<>>, <<>>, <<"Gateway auth secret configured">>)
     ELSE Contribution(15, 0, <<Issue("Gateway auth not configured", "")>>, <<>>, <<>>)

Check3(platform, perm) ==
  IF platform = "win32" THEN Skipped
  ELSE IF checkFilePermissions(perm.config).secure
       THEN Contribution(15, 15, <<>>, <<>>, <<"Config file permissions are secure">>)
       ELSE Contribution(15, 0, <<Issue("Insecure file permissions", "config")>>,
                         <<>>, <<>>)

Check4(config, hasEnvApiKey) ==
  LET profiles == OptGet(OptGet(config, "auth"), "profiles")
      hasAuthProfiles == Truthy(profiles) /\ DOMAIN OwnProps(profiles) # {}
  IN IF hasAuthProfiles \/ hasEnvApiKey
     THEN Contribution(10, 10, <<>>, <<>>, <<"Model authentication source configured">>)
     ELSE IF Truthy(OptGet(OptGet(config, "anthropic"), "apiKey"))
             \/ Truthy(OptGet(OptGet(config, "openai"), "apiKey"))
          THEN Contribution(10, 5, <<>>, <<"API key in config file">>, <<>>)
          ELSE Contribution(10, 0, <<>>, <<>>, <<>>)

bindAddress(config) ==
  LET bind == OptGet(OptGet(config, "gateway"), "bind")
  IN IF Truthy(bind) THEN bind ELSE S("loopback")

Check5(config) ==
  IF bindAddress(config) = S("loopback") \/ bindAddress(config) = S("127.0.0.1")
  THEN Contribution(15, 15, <<>>, <<>>, <<"Gateway bound to loopback only">>)
  ELSE IF bindAddress(config) = S("lan")
       THEN Contribution(15, 10, <<>>, <<"Gateway accessible on LAN">>, <<>>)
       ELSE Contribution(15, 0, <<Issue("Gateway publicly accessible", "")>>, <<>>, <<>>)

Check6(config) ==
  LET gw == OptGet(OptGet(config, "gateway"), "trustedProxies")
      sec == OptGet(OptGet(config, "security"), "trustedProxies")
      trustedProxies == IF Truthy(gw) THEN gw ELSE IF Truthy(sec) THEN sec ELSE A(<<>>)
  IN IF IsArray(trustedProxies) /\ Len(trustedProxies.v) > 0
     THEN Contribution(10, 10, <<>>, <<>>, <<"Trusted proxies configured">>)
     ELSE IF bindAddress(config) # S("loopback")
          THEN Contribution(10, 0, <<Issue("No trusted proxies configured", "")>>,
                            <<>>, <<>>)
          ELSE Contribution(10, 0, <<>>, <<>>, <<>>)

Check7(config) ==
  IF Truthy(OptGet(OptGet(OptGet(config, "gateway"), "controlUi"),
                   "dangerouslyDisableDeviceAuth"))
  THEN Contribution(10, 0, <<Issue("Control UI device auth disabled", "")>>, <<>>, <<>>)
  ELSE Contribution(10, 10, <<>>, <<>>, <<"Control UI device auth guard is enabled">>)

Check8(platform, perm) ==
  IF platform = "win32" THEN Skipped
  ELSE IF perm.logs = Absent THEN Contribution(10, 0, <<>>, <<>>, <<>>)
  ELSE IF checkFilePermissions(perm.logs).secure
       THEN Contribution(10, 10, <<>>, <<>>, <<"Log directory permissions are secure">>)
       ELSE Contribution(10, 0, <<Issue("Insecure log directory permissions", "logs")>>,
                         <<>>, <<>>)

Check9(platform, perm) ==
  IF platform = "win32" THEN Skipped
  ELSE IF perm.workspace = Absent THEN Contribution(5, 0, <<>>, <<>>, <<>>)
  ELSE IF checkFilePermissions(perm.workspace).ownerOnly
       THEN Contribution(5, 5, <<>>, <<>>,
                         <<"Workspace directory permissions are secure">>)
       ELSE Contribution(5, 0, <<>>, <<"Workspace directory readable by others">>, <<>>)

\* The nine checks in order.
AuditChecks(config, platform, perm, hasEnvApiKey) ==
  <<Check1(config), Check2(config), Check3(platform, perm),
    Check4(config, hasEnvApiKey), Check5(config), Check6(config), Check7(config),
    Check8(platform, perm), Check9(platform, perm)>>

RECURSIVE SumField(_, _, _)
SumField(cs, field, i) ==
  IF i > Len(cs) THEN 0 ELSE cs[i][field] + SumField(cs, field, i + 1)

RECURSIVE CatField(_, _, _)
CatField(cs, field, i) ==
  IF i > Len(cs) THEN <<>> ELSE cs[i][field] \o CatField(cs, field, i + 1)

\* `results` of runSecurityAudit after the read-only pass.
AuditResults(config, platform, perm, hasEnvApiKey) ==
  LET cs == AuditChecks(config, platform, perm, hasEnvApiKey)
  IN [score |-> SumField(cs, "score", 1), maxScore |-> SumField(cs, "maxScore", 1),
      issues |-> CatField(cs, "issues", 1), warnings |-> CatField(cs, "warnings", 1),
      passed |-> CatField(cs, "passed", 1)]

(***************************************************************************)
(* core/health-checker.js and core/service-manager.js: the checks          *)
(*                                                                         *)
(* A result is [name, category, status, fix]; the message text is left     *)
(* out.  A fix text is modelled by its words, NoFix being the null fix.    *)
(***************************************************************************)
NoFix == <<>>

\* addResult's entry.
Result(name, category, status, fix) ==
  [name |-> name, category |-> category, status |-> status, fix |-> fix]

ConfigPath == "~/.openclaw/openclaw.json"

EnvPath == "~/.openclaw/.env"

WorkspacePath == "~/.openclaw/workspace"

\* config.agents?.defaults?.model
AgentModelOf(config) == OptGet(OptGet(Get(config, "agents"), "defaults"), "model")

\* typeof agentModel === 'object' ? agentModel.primary : agentModel
ModelStr(agentModel) ==
  IF TypeofObject(agentModel) THEN Get(agentModel, "primary") ELSE agentModel

\* config.plugins?.entries || {}
PluginEntriesOf(config) == OrEmpty(OptGet(Get(config, "plugins"), "entries"))

\* Object.values(pluginEntries).filter(p => p.enabled).length
EnabledCount(props) == Cardinality({k \in DOMAIN props : Truthy(Get(props[k], "enabled"))})

\* Reading .enabled of a null or undefined entry throws.
SomeEntryNullish(props) == \E k \in DOMAIN props : props[k].t \in {"undefined", "null"}

ChannelEnabled(config, channel) ==
  Truthy(OptGet(OptGet(OptGet(config, "channels"), channel), "enabled"))

Corrupted ==
  Result("Config Valid JSON", "config", "fail",
         <<"Restore", "from", "backup:", "cp", "~/.openclaw/openclaw.json.bak", ConfigPath>>)

AgentModelResult(modelStr) ==
  IF Truthy(modelStr) THEN Result("Agent Model", "config", "pass", NoFix)
  ELSE Result("Agent Model", "config", "warn",
              <<"Set", "agents.defaults.model", "in", "openclaw.json">>)

\* A Plugins result that carries the fix text whatever the count.
PluginsResultWithFix(enabledCount) ==
  Result("Plugins", "config", IF enabledCount > 0 THEN "pass" ELSE "warn",
         <<"Run:", "openclaw-easyset", "configure", "plugins">>)

PluginsResult(enabledCount) ==
  IF enabledCount > 0 THEN Result("Plugins", "config", "pass", NoFix)
  ELSE Result("Plugins", "config", "warn",
              <<"Run:", "openclaw-easyset", "configure", "plugins">>)

ChannelsResult(config) ==
  Result("Channels", "config",
         IF ChannelEnabled(config, "telegram") \/ ChannelEnabled(config, "imessage")
         THEN "pass" ELSE "warn",
         NoFix)

GatewayConfigResult(config) ==
  Result("Gateway Config", "config",
         IF Truthy(OptGet(Get(config, "gateway"), "port")) THEN "pass" ELSE "warn",
         NoFix)

\* The try block of checkConfig from the plugins check on.
ConfigSections(config, props) ==
  IF SomeEntryNullish(props) THEN <<Corrupted>>
  ELSE <<PluginsResult(EnabledCount(props)), ChannelsResult(config),
         GatewayConfigResult(config)>>

\* The try block of checkConfig after a successful load: 'Config Valid JSON'
\* passes, then the sections are read; a TypeError thrown by a read (config
\* is null, agents.defaults.model is null, a plugin entry is null) lands in
\* the catch, which adds the 'corrupted' result.
ConfigTry(config) ==
  <<Result("Config Valid JSON", "config", "pass", NoFix)>>
  \o (IF config.t \in {"undefined", "null"} \/ AgentModelOf(config) = Null
      THEN <<Corrupted>>
      ELSE <<AgentModelResult(ModelStr(AgentModelOf(config)))>>
           \o ConfigSections(config, OwnProps(PluginEntriesOf(config))))

EnvFileResult(perm) ==
  IF perm.env # Absent THEN Result("Environment File", "config", "pass", NoFix)
  ELSE Result("Environment File", "config", "warn",
              <<"Copy", "from", "template:", "cp", "~/.openclaw/.env.template", EnvPath>>)

checkConfig(file, perm) ==
  IF file.kind = "absent"
  THEN <<Result("OpenClaw Config", "config", "fail", <<"Run:", "openclaw", "setup">>)>>
  ELSE (IF parseOpenClawConfig(file).ok THEN ConfigTry(parseOpenClawConfig(file).config)
        ELSE <<Corrupted>>)
       \o <<EnvFileResult(perm)>>

\* known?.description || shortName of discoverServices.
Description(label) ==
  CASE label = "ai.openclaw.gateway" -> "OpenClaw Gateway"
    [] label = "ai.openclaw.gmail-watch" -> "Gmail Watch Webhook"
    [] label = "ai.openclaw.custom" -> "custom"

\* getAllStatuses and the loop of checkServices: plists are the labels of
\* the ai.openclaw.*.plist files found, running the labels launchctl lists
\* with a pid.
ServiceResult(label, running) ==
  IF label \in running THEN Result(Description(label), "services", "pass", NoFix)
  ELSE Result(Description(label), "services", "fail",
              <<"Run:", "launchctl", "load", label>>)

checkServices(plists, running) ==
  IF Len(plists) = 0 THEN <<Result("LaunchD Services", "services", "warn", NoFix)>>
  ELSE [i \in 1..Len(plists) |-> ServiceResult(plists[i], running)]

checkConnectivity(host) ==
  <<IF host.gateway THEN Result("Gateway HTTP", "connectivity", "pass", NoFix)
    ELSE Result("Gateway HTTP", "connectivity", "fail",
                <<"Check:", "openclaw-easyset", "doctor", "--fix">>),
    Result("Internet Access", "connectivity",
           IF host.internet THEN "pass" ELSE "warn", NoFix)>>

checkStorage(perm, host) ==
  <<IF perm.workspace # Absent THEN Result("Workspace", "storage", "pass", NoFix)
    ELSE Result("Workspace", "storage", "fail", <<"Run:", "mkdir", "-p", WorkspacePath>>),
    Result("Memory Database", "storage", IF host.sqlite THEN "pass" ELSE "warn", NoFix),
    IF host.lancedb THEN Result("Vector Store", "storage", "pass", NoFix)
    ELSE Result("Vector Store", "storage", "warn",
                <<"Run:", "openclaw-easyset", "configure", "plugins",
                  "(enable", "memory-lancedb)">>),
    Result("Cron Jobs", "storage", IF host.cron = "ok" THEN "pass" ELSE "warn", NoFix)>>
  \o (CASE host.disk = "ok" -> <<Result("Disk Space", "storage", "pass", NoFix)>>
        [] host.disk = "low" ->
             <<Result("Disk Space", "storage", "warn",
                      <<"Free", "up", "disk", "space", "(<", "1GB", "remaining)">>)>>
        [] OTHER -> <<>>)

\* config.auth?.profiles || {}, counted by length or by Object.keys.
ProfileCount(profiles) == Cardinality(DOMAIN OwnProps(profiles))

AuthProfilesResult(config) ==
  IF ProfileCount(OrEmpty(OptGet(Get(config, "auth"), "profiles"))) > 0
  THEN Result("Auth Profiles", "security", "pass", NoFix)
  ELSE Result("Auth Profiles", "security", "warn", <<"Run:", "openclaw", "auth", "add">>)

\* secret.length >= 24; the length of a non-string secret is undefined.
StrongSecret(secret) == Get(secret, "length").t = "num" /\ Get(secret, "length").v >= 24

GatewayAuthResult(auth) ==
  IF Truthy(OptGet(auth, "token")) \/ Truthy(OptGet(auth, "password"))
  THEN IF StrongSecret(Or(Get(auth, "token"), Get(auth, "password")))
       THEN Result("Gateway Auth", "security", "pass", NoFix)
       ELSE Result("Gateway Auth", "security", "warn",
                   <<"Use", "a", "longer", "gateway", "token/password">>)
  ELSE Result("Gateway Auth", "security", "fail",
              <<"Run:", "openclaw", "doctor", "--generate-gateway-token">>)

\* mode & 0o077 of a file's permission bits.
GroupOtherBits(mode) == mode % 64

PermissionResult(name, mode, path) ==
  IF GroupOtherBits(mode) # 0
  THEN Result(name, "security", "warn", <<"Run:", "chmod", "600", path>>)
  ELSE Result(name, "security", "pass", NoFix)

\* The try block of checkCredentials; reading config.auth of a null config
\* throws into the outer catch before any result is added.
CredentialsTry(config, perm, host) ==
  IF config.t \in {"undefined", "null"} THEN <<>>
  ELSE <<AuthProfilesResult(config),
         GatewayAuthResult(OptGet(Get(config, "gateway"), "auth"))>>
       \o (IF host.credentials THEN <<Result("Credentials", "security", "pass", NoFix)>>
           ELSE <<>>)
       \o (IF perm.config # Absent
           THEN <<PermissionResult("Config Permissions", perm.config, ConfigPath)>>
           ELSE <<>>)
       \o (IF perm.env # Absent
           THEN <<PermissionResult(".env Permissions", perm.env, EnvPath)>>
           ELSE <<>>)

checkCredentials(file, perm, host) ==
  IF file.kind = "absent" \/ ~parseOpenClawConfig(file).ok THEN <<>>
  ELSE CredentialsTry(parseOpenClawConfig(file).config, perm, host)

Tools ==
  <<[name |-> "openclaw", required |-> TRUE, label |-> "OpenClaw CLI"],
    [name |-> "node", required |-> TRUE, label |-> "Node.js"],
    [name |-> "npm", required |-> TRUE, label |-> "npm"],
    [name |-> "git", required |-> FALSE, label |-> "Git"],
    [name |-> "gog", required |-> FALSE, label |-> "Google Workspace CLI"],
    [name |-> "imsg", required |-> FALSE, label |-> "iMessage CLI"]>>

ToolResult(tool, installed) ==
  IF tool.name \in installed THEN Result(tool.label, "tools", "pass", NoFix)
  ELSE IF tool.required
       THEN Result(tool.label, "tools", "fail", <<"Install", tool.name>>)
       ELSE Result(tool.label, "tools", "warn", NoFix)

checkTools(installed) == [i \in 1..Len(Tools) |-> ToolResult(Tools[i], installed)]

\* errLog is the state of logs/gateway.err.log: "absent", "unreadable",
\* "large" (over 10 MB), "errors" (last line has error or fatal), "clean" or
\* "empty".
checkLogs(perm, errLog) ==
  IF perm.logs = Absent THEN <<Result("Log Directory", "logs", "warn", NoFix)>>
  ELSE CASE errLog = "large" ->
              <<Result("Gateway Error Log", "logs", "warn",
                       <<"Consider", "rotating:", ">", "~/.openclaw/logs/gateway.err.log">>)>>
         [] errLog = "errors" -> <<Result("Gateway Error Log", "logs", "warn", NoFix)>>
         [] errLog \in {"clean", "empty"} ->
              <<Result("Gateway Error Log", "logs", "pass", NoFix)>>
         [] OTHER -> <<>>

\* this.results after runAll.
runAll(file, perm, host, running) ==
  checkConfig(file, perm) \o checkServices(host.plists, running)
  \o checkConnectivity(host) \o checkStorage(perm, host)
  \o checkCredentials(file, perm, host) \o checkTools(host.tools)
  \o checkLogs(perm, host.errLog)

\* (r.status === 'fail' || r.status === 'warn') && r.fix
Fixable(r) == r.status \in {"fail", "warn"} /\ r.fix # NoFix

\* fix.startsWith(prefix)
StartsWith(words, prefix) ==
  Len(words) >= Len(prefix) /\ SubSeq(words, 1, Len(prefix)) = prefix

\* The command families autoFix executes.
SafePrefixes ==
  {<<"Run:", "chmod">>, <<"Run:", "mkdir">>, <<"Run:", "launchctl", "load">>}

\* The results autoFix runs a command for.
AutoFixable(r) == Fixable(r) /\ \E prefix \in SafePrefixes : StartsWith(r.fix, prefix)

\* result.fix.replace('Run: ', '')
CommandOf(fix) == Tail(fix)

\* The perm field of a path named in a command.
PathField(path) ==
  CASE path = ConfigPath -> "config"
    [] path = EnvPath -> "env"
    [] path = WorkspacePath -> "workspace"

(***************************************************************************)
(* The state: one host's ~/.openclaw and the CLI invocations running on it *)
(***************************************************************************)
VARIABLES
  configFile,   \* text of ~/.openclaw/openclaw.json, NoFile when absent
  perm,         \* permission bits of config, env (.env), logs, workspace
  backups,      \* timestamp |-> text of openclaw.json.easyset-backup.<timestamp>
  now,          \* the value Date.now() returns
  host,         \* what does not change: platform, environment, probe outcomes
  services,     \* the labels of the launchd services that are running
  proc,         \* the state of each terminal's CLI invocation
  runs          \* the number of CLI invocations started so far in each terminal

vars == <<configFile, perm, backups, now, host, services, proc, runs>>

\* The terminals a CLI invocation may run in.
Procs == {"cli1", "cli2"}

\* The CLI invocations started in one terminal.
MaxRuns == 1

\* Date.now() values the model distinguishes.
MaxClock == 1

NoPath == -1

\* Modes a created file and a created directory get under umask 022.
FileMode == 420

DirMode == 493

\* 0o600 and 0o700, the modes of the chmod fixes.
Mode600 == 384

Mode700 == 448

Idle ==
  [pc |-> "idle", cmd |-> "none", arg |-> "", dryRun |-> FALSE,
   config |-> Undefined, format |-> "none", writeFormat |-> "none",
   backup |-> FALSE, backupPath |-> NoPath, queue |-> <<>>, out |-> <<>>,
   score |-> 0, maxScore |-> 0, results |-> <<>>]

existsSync(file) == file.kind # "absent"

(***************************************************************************)
(* Initial documents and hosts                                             *)
(***************************************************************************)
DocEmpty == EmptyObj

DocChannels ==
  O([channels |->
       O([telegram |-> O([dmPolicy |-> S("open")]),
          whatsapp |-> O([dm |-> O([policy |-> S("pairing")])]),
          imessage |-> O([dmPolicy |-> S("allowlist")]),
          discord |-> O([enabled |-> B(TRUE)])])])

DocSignal ==
  O([channels |->
       O([signal |-> O([dmPolicy |-> S("open")]),
          telegram |-> O([dmPolicy |-> S("pairing")])]),
     gateway |-> O([bind |-> S("lan"), port |-> N(18789)]),
     security |-> O([trustedProxies |-> A(<<S("127.0.0.1")>>), custom |-> N(1)])])

DocPlugins ==
  O([plugins |->
       O([entries |->
            O(("memory-lancedb" :>
                 O([enabled |-> B(FALSE),
                    config |-> O([embedding |-> S("xy"), autoCapture |-> B(FALSE),
                                  dbPath |-> S("xy")]),
                    note |-> S("xy")]))
              @@ ("other" :> O([enabled |-> B(TRUE), config |-> O([a |-> N(1)])]))),
          slots |-> O([memory |-> S("other"), tasks |-> S("other")])]),
     agents |-> O([defaults |-> O([model |-> S("m1")])])])

\* A config with every audited setting in order except one open channel.
DocOpenChannel ==
  O([channels |-> O([googlechat |-> O([dm |-> O([policy |-> S("open")])])]),
     gateway |-> O([auth |-> O([token |-> S("k1")]),
                    trustedProxies |-> LocalProxies]),
     auth |-> O([profiles |-> O([main |-> O([provider |-> S("anthropic")])])])])

\* A config whose gateway is bound to the loopback address by number.
DocLocalBind == O([gateway |-> O([bind |-> S("127.0.0.1"), port |-> N(18789)])])

\* A config with a gateway secret and nothing else: the gateway binds to
\* the default address and no trusted proxies are listed.
DocGatewayAuth == O([gateway |-> O([auth |-> O([token |-> S("k1")])])])

\* A config whose default agent model is set to null.
DocNullModel == O([agents |-> O([defaults |-> O([model |-> Null])])])

InitDocs ==
  {DocEmpty, DocChannels, DocSignal, DocPlugins, DocOpenChannel, DocLocalBind,
   DocGatewayAuth, DocNullModel}

InitFiles ==
  {NoFile, Text("garbage", Undefined)}
  \cup {Text(k, d) : k \in {"json", "json5"}, d \in InitDocs}

Perm(config, env, logs, workspace) ==
  [config |-> config, env |-> env, logs |-> logs, workspace |-> workspace]

\* What a host's probes answer and what its environment holds; none of it
\* changes during a behaviour.
Host(platform, apiKey, plists, up, tools, errLog, disk) ==
  [platform |-> platform, apiKey |-> apiKey, plists |-> plists, gateway |-> up,
   internet |-> up, sqlite |-> up, lancedb |-> up, credentials |-> up,
   cron |-> IF up THEN "ok" ELSE "absent", tools |-> tools, errLog |-> errLog,
   disk |-> disk]

\* Three hosts: a Linux host with world-readable files, no workspace
\* directory yet and nothing running, a macOS host with owner-only files, an
\* API key in the environment and a gateway service that is installed but
\* not loaded, a Windows host without .env and logs.
InitHosts ==
  {[host |-> Host("linux", "", <<>>, FALSE, {"node", "npm", "git"}, "errors", "low"),
    perm |-> Perm(FileMode, FileMode, DirMode, Absent)],
   [host |-> Host("darwin", "k1", <<"ai.openclaw.gateway">>, TRUE,
                  {"openclaw", "node", "npm", "git", "imsg"}, "clean", "ok"),
    perm |-> Perm(Mode600, Mode600, Mode700, Mode700)],
   [host |-> Host("win32", "", <<>>, FALSE, {"node", "npm"}, "absent", "error"),
    perm |-> Perm(FileMode, Absent, Absent, DirMode)]}

InitOf(files, hosts) ==
  /\ configFile \in files
  /\ \E h \in hosts :
       /\ host = h.host
       /\ perm = IF existsSync(configFile) THEN h.perm
                 ELSE [h.perm EXCEPT !.config = Absent]
  /\ backups = EmptyMap
  /\ now = 0
  /\ services = {}
  /\ proc = [p \in Procs |-> Idle]
  /\ runs = [p \in Procs |-> 0]

Init == InitOf(InitFiles, InitHosts)

(***************************************************************************)
(* openclaw-config.js: load, update and the steps of save                  *)
(***************************************************************************)
\* loadOpenClawConfig({optional: false}) on an existing file; ok is FALSE
\* when parse throws.
loadOpenClawConfig(file) == parseOpenClawConfig(file)

\* updateOpenClawConfig up to its call of saveOpenClawConfig, with the
\* mutator's effect given as `mutated` (a function of the loaded config):
\* the invocation's record after load and mutate, or a thrown error.
\* loaded.config || {} and loaded.format || 'json' are the fallbacks.
UpdateLoaded(file, create) ==
  IF existsSync(file) THEN loadOpenClawConfig(file)
  ELSE IF create THEN [ok |-> TRUE, config |-> EmptyObj, format |-> "json"]
       ELSE [ok |-> FALSE, config |-> Undefined, format |-> "none"]

Set(p, rec) == proc' = [proc EXCEPT ![p] = rec]

\* A command is started in terminal p.
Launch(p) ==
  /\ proc[p].pc = "idle"
  /\ runs[p] < MaxRuns
  /\ runs' = [runs EXCEPT ![p] = @ + 1]

Log(r, line) == [r EXCEPT !.out = Append(@, line)]

\* A command that never takes the dry-run exit.
IgnoreDryRun(dryRun) == FALSE

\* if (dryRun) of applySecurityProfile and if (options.dryRun) of
\* interactiveSecuritySetup: the early return before updateOpenClawConfig.
SecurityShortCircuit(dryRun) == dryRun

\* applySecurityProfile(profileName, {dryRun}) up to the save.
StartProfile(p, profileName, dryRun) ==
  /\ Launch(p)
  /\ LET r == [proc[p] EXCEPT !.cmd = "profile", !.arg = profileName,
                              !.dryRun = dryRun]
         loaded == UpdateLoaded(configFile, TRUE)
     IN IF profileName \notin ProfileNames
        THEN Set(p, Log([r EXCEPT !.pc = "done"], [kind |-> "error", name |-> "unknown profile"]))
        ELSE IF SecurityShortCircuit(dryRun)
        THEN Set(p, Log([r EXCEPT !.pc = "done"], [kind |-> "dry-run", name |-> "would apply settings"]))
        ELSE IF ~loaded.ok
        THEN Set(p, [r EXCEPT !.pc = "failed"])
        ELSE Set(p, [r EXCEPT !.pc = "save_backup",
                              !.config = ProfileMutator(OrEmpty(loaded.config),
                                                        SECURITY_PROFILES[profileName]),
                              !.format = loaded.format,
                              !.writeFormat = loaded.format,
                              !.backup = TRUE])
  /\ UNCHANGED <<configFile, perm, backups, now, host, services>>

\* Answers of the custom setup's prompts.
CustomAnswers ==
  {[pairing |-> pr, webhookVerification |-> TRUE, rateLimiting |-> TRUE,
    trustedProxies |-> tp] : pr \in BOOLEAN, tp \in {A(<<>>), LocalProxies}}

\* interactiveSecuritySetup with customize answered yes, up to the save.
StartCustom(p, answers, dryRun) ==
  /\ Launch(p)
  /\ LET r == [proc[p] EXCEPT !.cmd = "custom",
                              !.arg = IF answers.pairing THEN "pairing" ELSE "open",
                              !.dryRun = dryRun]
         loaded == UpdateLoaded(configFile, TRUE)
     IN IF SecurityShortCircuit(dryRun)
        THEN Set(p, Log([r EXCEPT !.pc = "done"], [kind |-> "dry-run", name |-> "would save settings"]))
        ELSE IF ~loaded.ok
        THEN Set(p, [r EXCEPT !.pc = "failed"])
        ELSE Set(p, [r EXCEPT !.pc = "save_backup",
                              !.config = CustomMutator(OrEmpty(loaded.config), answers),
                              !.format = loaded.format,
                              !.writeFormat = loaded.format,
                              !.backup = TRUE])
  /\ UNCHANGED <<configFile, perm, backups, now, host, services>>

\* copyFileSync(OPENCLAW_CONFIG, backupPath): the file at backupPath is
\* created or overwritten with the config file's text.
copyFileSync(file, path) ==
  [t \in DOMAIN backups \cup {path} |-> IF t = path THEN file ELSE backups[t]]

\* saveOpenClawConfig, first part: if (backup && existsSync) copy the file to
\* `${OPENCLAW_CONFIG}.easyset-backup.${Date.now()}`.  The copy may throw
\* (disk full, no permission), which ends the save.
SaveBackup(p) ==
  /\ proc[p].pc = "save_backup"
  /\ IF proc[p].backup /\ existsSync(configFile)
     THEN \/ /\ backups' = copyFileSync(configFile, now)
             /\ Set(p, [proc[p] EXCEPT !.pc = "save_open", !.backupPath = now])
          \/ /\ Set(p, Log([proc[p] EXCEPT !.pc = "failed"], [kind |-> "error", name |-> "backup failed"]))
             /\ UNCHANGED backups
     ELSE /\ Set(p, [proc[p] EXCEPT !.pc = "save_open"])
          /\ UNCHANGED backups
  /\ UNCHANGED <<configFile, perm, now, host, services, runs>>

\* What an invocation does when saveOpenClawConfig throws: the wizard's
\* wrapper catches the error and returns false, the others let it propagate.
AfterWriteError(r) ==
  IF r.cmd = "wizard" THEN Log([r EXCEPT !.pc = "done"], [kind |-> "error", name |-> "save failed"])
  ELSE [r EXCEPT !.pc = "failed"]

\* writeFileSync(OPENCLAW_CONFIG, ...), first half: the file is opened with
\* flag 'w', which creates it or truncates it to length 0.
SaveOpen(p) ==
  /\ proc[p].pc = "save_open"
  /\ \/ /\ configFile' = Truncated
        /\ perm' = IF existsSync(configFile) THEN perm
                   ELSE [perm EXCEPT !.config = FileMode]
        /\ Set(p, [proc[p] EXCEPT !.pc = "save_write"])
     \/ /\ Set(p, AfterWriteError(proc[p]))
        /\ UNCHANGED <<configFile, perm>>
  /\ UNCHANGED <<backups, now, host, services, runs>>

\* Where an invocation continues after saveOpenClawConfig returned.
AfterSave(r) ==
  IF r.cmd \in {"profile", "custom"} THEN [r EXCEPT !.pc = "chmod"]
  ELSE Log([r EXCEPT !.pc = "done"], [kind |-> "saved", name |-> "config"])

\* writeFileSync, second half: the serialised config is written to the
\* opened file from offset 0, over whatever another invocation put there in
\* the meantime; a write error leaves a part of it.
SaveWrite(p) ==
  /\ proc[p].pc = "save_write"
  /\ \/ /\ configFile' \in WriteOutcomes(configFile,
                                         Serialize(proc[p].config, proc[p].writeFormat))
        /\ Set(p, AfterSave(proc[p]))
     \/ /\ configFile' = Partial
        /\ Set(p, AfterWriteError(proc[p]))
  /\ UNCHANGED <<perm, backups, now, host, services, runs>>

\* if (platform() !== 'win32') chmodSync(configPath, 0o600), the end of
\* applySecurityProfile and of interactiveSecuritySetup.
ChmodConfig(p) ==
  /\ proc[p].pc = "chmod"
  /\ perm' = IF host.platform # "win32" THEN [perm EXCEPT !.config = Mode600] ELSE perm
  /\ Set(p, Log([proc[p] EXCEPT !.pc = "done"], [kind |-> "applied", name |-> "config"]))
  /\ UNCHANGED <<configFile, backups, now, host, services, runs>>

(***************************************************************************)
(* core/plugin-manager.js: the wizard                                      *)
(***************************************************************************)
\* promptLancedbConfig with options.yes.
LancedbDefaults(envKey) ==
  O([embedding |-> O([apiKey |-> S(envKey), model |-> S("text-embedding-3-small")]),
     autoCapture |-> B(TRUE), autoRecall |-> B(TRUE)])

\* promptLlmTaskConfig with options.yes.
LlmTaskDefaults ==
  O([defaultProvider |-> S("anthropic"), defaultModel |-> S("claude-sonnet-4-5"),
     maxTokens |-> N(4096), timeoutMs |-> N(60000)])

\* The answers a user may give to the wizard's prompts: the two confirms and
\* the two plugin configs built from the answers.
WizardAnswers ==
  {[confirmLancedb |-> cl, confirmLlm |-> ct,
    lancedb |-> O([embedding |-> O([apiKey |-> S("k1"),
                                    model |-> S("text-embedding-3-small")]),
                   autoCapture |-> B(FALSE), autoRecall |-> B(TRUE)]),
    llm |-> O([defaultProvider |-> S("anthropic"),
               defaultModel |-> S("claude-sonnet-4-5"),
               maxTokens |-> N(1024), timeoutMs |-> N(60000)])] :
     cl \in BOOLEAN, ct \in BOOLEAN}

\* if (options.dryRun) inside the wizard's two plugin sections.
WizardDryRun(dryRun) == dryRun

\* One plugin section of runPluginWizard on the in-memory config: the config
\* and the result entry it yields.
PluginSection(config, name, slot, configure, pluginConfig, dryRun) ==
  IF ~configure THEN [config |-> config, entry |-> [kind |-> "skipped", name |-> name]]
  ELSE IF WizardDryRun(dryRun)
  THEN [config |-> config, entry |-> [kind |-> "dry-run", name |-> name]]
  ELSE IF validatePluginConfig(name, pluginConfig)
  THEN [config |-> enablePlugin(config, name, pluginConfig, slot),
        entry |-> [kind |-> "enabled", name |-> name]]
  ELSE [config |-> config, entry |-> [kind |-> "error", name |-> name]]

\* result.plugins.length
PluginCount(out) ==
  Len(SelectSeq(out, LAMBDA e : e.kind \in {"enabled", "dry-run"}))

\* runPluginWizard({yes, dryRun}) up to its backupConfig call.
StartWizard(p, yes, dryRun, answers) ==
  /\ Launch(p)
  /\ LET r == [proc[p] EXCEPT !.cmd = "wizard", !.arg = IF yes THEN "yes" ELSE "ask",
                              !.dryRun = dryRun]
         loaded == UpdateLoaded(configFile, FALSE)
         enabledPlugins == getEnabledPlugins(loaded.config)
         lancedbEnabled == "memory-lancedb" \in enabledPlugins
         llmEnabled == "llm-task" \in enabledPlugins
         s1 == PluginSection(loaded.config, "memory-lancedb", "memory",
                             IF yes THEN ~lancedbEnabled ELSE answers.confirmLancedb,
                             IF yes THEN LancedbDefaults(host.apiKey) ELSE answers.lancedb,
                             dryRun)
         s2 == PluginSection(s1.config, "llm-task", "",
                             IF yes THEN ~llmEnabled ELSE answers.confirmLlm,
                             IF yes THEN LlmTaskDefaults ELSE answers.llm,
                             dryRun)
         out == <<s1.entry, s2.entry>>
     IN IF ~loaded.ok \/ ~Truthy(loaded.config)
        THEN Set(p, Log([r EXCEPT !.pc = "done"],
                        [kind |-> IF dryRun THEN "dry-run" ELSE "error",
                         name |-> "no config"]))
        ELSE IF ~dryRun /\ PluginCount(out) > 0
        THEN Set(p, [r EXCEPT !.pc = "wizard_backup", !.config = s2.config,
                              !.format = loaded.format, !.out = out])
        ELSE Set(p, [r EXCEPT !.pc = "done", !.config = s2.config,
                              !.format = loaded.format, !.out = out])
  /\ UNCHANGED <<configFile, perm, backups, now, host, services>>

\* PluginManager.backupConfig, then the call of saveOpenClawConfig(config)
\* with its defaults backup = false, format = 'json'.  A failed copy is
\* caught and logged, and null is returned.
WizardBackup(p) ==
  /\ proc[p].pc = "wizard_backup"
  /\ LET r == [proc[p] EXCEPT !.pc = "save_backup", !.backup = FALSE,
                              !.writeFormat = "json"]
     IN IF existsSync(configFile)
        THEN \/ /\ backups' = copyFileSync(configFile, now)
                /\ Set(p, [r EXCEPT !.backupPath = now])
             \/ /\ Set(p, r)
                /\ UNCHANGED backups
        ELSE /\ Set(p, r)
             /\ UNCHANGED backups
  /\ UNCHANGED <<configFile, perm, now, host, services, runs>>

(***************************************************************************)
(* commands/security.js: the audit command and its fix pass                *)
(***************************************************************************)
\* Closures that chmod to 0o755, which leaves group and others their read
\* and search bits.
FixModeListable(path) == DirMode

\* The paths the autoFix closures of issues chmod, and to which mode.
FixMode(path) == IF path = "config" THEN Mode600 ELSE Mode700

\* results.issues.filter(i => i.autoFix), as the paths to chmod.
FixableIssues(issues) ==
  LET fixable == SelectSeq(issues, LAMBDA i : i.autoFix # "")
  IN [k \in 1..Len(fixable) |-> fixable[k].autoFix]

\* An audit that applies the first fixable finding's chmod while its checks
\* are still running, instead of in the fix loop after them.
StartAuditFixingInline(p, fix, dryRun) ==
  /\ Launch(p)
  /\ UpdateLoaded(configFile, TRUE).ok
  /\ LET fixable == FixableIssues(AuditResults(UpdateLoaded(configFile, TRUE).config,
                                               host.platform, perm,
                                               host.apiKey # "").issues)
     IN perm' = IF fix /\ ~dryRun /\ Len(fixable) > 0
                THEN [perm EXCEPT ![fixable[1]] = FixMode(fixable[1])]
                ELSE perm
  /\ Set(p, [proc[p] EXCEPT !.cmd = "audit", !.arg = IF fix THEN "fix" ELSE "",
                            !.dryRun = dryRun, !.pc = "done"])
  /\ UNCHANGED <<configFile, backups, now, host, services>>

\* runSecurityAudit({fix, dryRun}): the read-only pass, which leaves the
\* audited config and results.score / results.maxScore.
StartAudit(p, fix, dryRun) ==
  /\ Launch(p)
  /\ LET r == [proc[p] EXCEPT !.cmd = "audit", !.arg = IF fix THEN "fix" ELSE "",
                              !.dryRun = dryRun]
         loaded == UpdateLoaded(configFile, TRUE)
         results == AuditResults(loaded.config, host.platform, perm, host.apiKey # "")
         fixable == FixableIssues(results.issues)
         audited == [r EXCEPT !.config = loaded.config, !.score = results.score,
                              !.maxScore = results.maxScore]
     IN IF ~loaded.ok THEN Set(p, [r EXCEPT !.pc = "failed"])
        ELSE IF fix /\ Len(results.issues) > 0 /\ Len(fixable) > 0
        THEN Set(p, [audited EXCEPT !.pc = "audit_fix", !.queue = fixable])
        ELSE Set(p, [audited EXCEPT !.pc = "done"])
  /\ UNCHANGED <<configFile, perm, backups, now, host, services>>

\* if (dryRun) inside the fix loop of runSecurityAudit.
AuditDryRun(dryRun) == dryRun

\* One iteration of the fix loop: the issue's autoFix closure, chmodSync,
\* throws when the path is gone or the chmod is refused; the error is caught.
AuditFix(p) ==
  /\ proc[p].pc = "audit_fix"
  /\ LET path == Head(proc[p].queue)
         r == [proc[p] EXCEPT !.queue = Tail(@),
                              !.pc = IF Len(proc[p].queue) = 1 THEN "done" ELSE @]
     IN IF AuditDryRun(proc[p].dryRun)
        THEN /\ Set(p, Log(r, [kind |-> "would fix", name |-> path]))
             /\ UNCHANGED perm
        ELSE \/ /\ perm[path] # Absent
                /\ perm' = [perm EXCEPT ![path] = FixMode(path)]
                /\ Set(p, Log(r, [kind |-> "fixed", name |-> path]))
             \/ /\ Set(p, Log(r, [kind |-> "failed to fix", name |-> path]))
                /\ UNCHANGED perm
  /\ UNCHANGED <<configFile, backups, now, host, services, runs>>

(***************************************************************************)
(* commands/doctor.js and HealthChecker.autoFix                            *)
(***************************************************************************)
\* The invocation's record once doctorCommand has run the checks: results is
\* this.results, queue the results autoFix's loop does not skip.
DoctorStarted(r, fix, dryRun, results) ==
  [r EXCEPT !.cmd = "doctor", !.arg = IF fix THEN "fix" ELSE "",
            !.dryRun = dryRun, !.results = results,
            !.queue = IF fix THEN SelectSeq(results, AutoFixable) ELSE <<>>,
            !.pc = IF fix /\ \E i \in DOMAIN results : AutoFixable(results[i])
                   THEN "doctor_fix" ELSE "done"]

\* doctorCommand(options): runAll and printResults, then with options.fix
\* the results autoFix is going to run a command for.  No option other than
\* fix and json is read; autoFix takes no argument.
StartDoctor(p, fix, dryRun) ==
  /\ Launch(p)
  /\ Set(p, DoctorStarted(proc[p], fix, dryRun,
                          runAll(configFile, perm, host, services)))
  /\ UNCHANGED <<configFile, perm, backups, now, host, services>>

\* doctorCommand when the curl subprocess of checkGatewayHealth never exits:
\* executeCommand passes no timeout to exec and the curl command line has no
\* --max-time, so the await in checkConnectivity never settles.  this.results
\* holds what checkConfig and checkServices added.
StartDoctorAwaiting(p, fix) ==
  /\ Launch(p)
  /\ Set(p, [proc[p] EXCEPT !.cmd = "doctor", !.arg = IF fix THEN "fix" ELSE "",
                            !.pc = "awaiting",
                            !.results = checkConfig(configFile, perm)
                                        \o checkServices(host.plists, services)])
  /\ UNCHANGED <<configFile, perm, backups, now, host, services>>

\* What the shell does with a command of autoFix when it succeeds.
\* chmod 600 <path> needs the path to exist; mkdir -p creates the directory
\* unless it is there; launchctl load starts the service.  The commands are
\* POSIX shell commands (launchctl a macOS one): elsewhere the shell rejects
\* them.
ExecuteCommand(cmd) ==
  CASE cmd[1] = "chmod" ->
         /\ host.platform # "win32"
         /\ perm[PathField(cmd[3])] # Absent
         /\ perm' = [perm EXCEPT ![PathField(cmd[3])] = Mode600]
         /\ UNCHANGED services
    [] cmd[1] = "mkdir" ->
         /\ host.platform # "win32"
         /\ perm' = [perm EXCEPT ![PathField(cmd[3])] =
                                    IF @ = Absent THEN DirMode ELSE @]
         /\ UNCHANGED services
    [] cmd[1] = "launchctl" ->
         /\ host.platform = "darwin"
         /\ services' = services \cup {cmd[3]}
         /\ UNCHANGED perm

\* A fix loop without the try/catch around executeCommand: the first command
\* that fails rejects autoFix, and the fixes after it are never run.
DoctorFixAborting(p) ==
  /\ proc[p].pc = "doctor_fix"
  /\ LET result == Head(proc[p].queue)
         r == [proc[p] EXCEPT !.queue = Tail(@),
                              !.pc = IF Len(proc[p].queue) = 1 THEN "done" ELSE @]
     IN \/ /\ ExecuteCommand(CommandOf(result.fix))
           /\ Set(p, Log(r, [kind |-> "fixed", name |-> result.name]))
        \/ /\ Set(p, [proc[p] EXCEPT !.pc = "failed"])
           /\ UNCHANGED <<perm, services>>
  /\ UNCHANGED <<configFile, backups, now, host, runs>>

\* One iteration of autoFix's loop that runs a command: executeCommand
\* resolves, or it rejects (the command exits non-zero) and the error is
\* caught; either way one entry is pushed to fixes.
DoctorFix(p) ==
  /\ proc[p].pc = "doctor_fix"
  /\ LET result == Head(proc[p].queue)
         r == [proc[p] EXCEPT !.queue = Tail(@),
                              !.pc = IF Len(proc[p].queue) = 1 THEN "done" ELSE @]
     IN \/ /\ ExecuteCommand(CommandOf(result.fix))
           /\ Set(p, Log(r, [kind |-> "fixed", name |-> result.name]))
        \/ /\ Set(p, Log(r, [kind |-> "failed to fix", name |-> result.name]))
           /\ UNCHANGED <<perm, services>>
  /\ UNCHANGED <<configFile, backups, now, host, runs>>

(***************************************************************************)
(* core/backup-manager.js: restoreBackup                                   *)
(***************************************************************************)
\* The backups in the backup directory, and the openclaw.json each holds;
\* of the backup targets openclaw.json is the one the model follows.
BackupNames == {"stable"}

Archived(backupName) == Text("json", DocSignal)

\* openclaw.json.easyset-backup.pre-restore.<timestamp>: the paths of the
\* safety copies are numbered after openclaw.json.easyset-backup.<timestamp>.
PreRestorePath(timestamp) == MaxClock + 1 + timestamp

\* restoreBackup(backupName) up to its loop: an unknown backup is reported
\* and nothing is done; otherwise createQuickBackup('pre-restore') copies
\* openclaw.json if it is there, and a copy that throws is caught inside
\* createQuickBackup, which then returns null.
StartRestore(p, backupName) ==
  /\ Launch(p)
  /\ LET r == [proc[p] EXCEPT !.cmd = "restore", !.arg = backupName]
     IN IF backupName \notin BackupNames
        THEN /\ Set(p, Log([r EXCEPT !.pc = "done"],
                           [kind |-> "error", name |-> "backup not found"]))
             /\ UNCHANGED backups
        ELSE IF existsSync(configFile)
        THEN \/ /\ backups' = copyFileSync(configFile, PreRestorePath(now))
                /\ Set(p, [r EXCEPT !.pc = "restore_copy",
                                    !.backupPath = PreRestorePath(now)])
             \/ /\ Set(p, [r EXCEPT !.pc = "restore_copy"])
                /\ UNCHANGED backups
        ELSE /\ Set(p, [r EXCEPT !.pc = "restore_copy"])
             /\ UNCHANGED backups
  /\ UNCHANGED <<configFile, perm, now, host, services>>

\* The loop of restoreBackup for openclaw.json: copyFileSync(srcPath,
\* destPath) replaces the file; when it throws, the catch reports the
\* failure and the destination is as it was or partly written.
RestoreCopy(p) ==
  /\ proc[p].pc = "restore_copy"
  /\ \/ /\ configFile' = Archived(proc[p].arg)
        /\ perm' = IF existsSync(configFile) THEN perm
                   ELSE [perm EXCEPT !.config = FileMode]
        /\ Set(p, Log([proc[p] EXCEPT !.pc = "done"],
                      [kind |-> "restored", name |-> proc[p].arg]))
     \/ /\ configFile' \in {configFile, Partial}
        /\ perm' = IF existsSync(configFile) = existsSync(configFile') THEN perm
                   ELSE [perm EXCEPT !.config = FileMode]
        /\ Set(p, Log([proc[p] EXCEPT !.pc = "done"],
                      [kind |-> "error", name |-> "restore failed"]))
  /\ UNCHANGED <<backups, now, host, services, runs>>

\* The process is interrupted (killed, power loss) between two steps.
Kill(p) ==
  /\ proc[p].pc \in {"save_backup", "save_open", "save_write", "chmod",
                     "wizard_backup", "audit_fix", "doctor_fix", "awaiting",
                     "restore_copy"}
  /\ Set(p, [proc[p] EXCEPT !.pc = "killed"])
  /\ UNCHANGED <<configFile, perm, backups, now, host, services, runs>>

\* Time passes: Date.now() returns a later value.
Tick ==
  /\ now < MaxClock
  /\ now' = now + 1
  /\ UNCHANGED <<configFile, perm, backups, host, services, proc, runs>>

\* The invocation has ended (returned, thrown or been killed); its terminal
\* is free for the next command.
Exit(p) ==
  /\ proc[p].pc \in {"done", "failed", "killed"}
  /\ Set(p, Idle)
  /\ UNCHANGED <<configFile, perm, backups, now, host, services, runs>>

\* The steps of the invocation in terminal p.
Step(p) ==
  \/ \E n \in ProfileNames \cup {"bogus"}, d \in BOOLEAN : StartProfile(p, n, d)
  \/ \E a \in CustomAnswers, d \in BOOLEAN : StartCustom(p, a, d)
  \/ \E y \in BOOLEAN, d \in BOOLEAN, a \in WizardAnswers : StartWizard(p, y, d, a)
  \/ \E f \in BOOLEAN, d \in BOOLEAN : StartAudit(p, f, d)
  \/ \E f \in BOOLEAN, d \in BOOLEAN : StartDoctor(p, f, d)
  \/ \E f \in BOOLEAN : StartDoctorAwaiting(p, f)
  \/ \E n \in BackupNames \cup {"missing"} : StartRestore(p, n)
  \/ RestoreCopy(p)
  \/ WizardBackup(p)
  \/ AuditFix(p)
  \/ DoctorFix(p)
  \/ SaveBackup(p)
  \/ SaveOpen(p)
  \/ SaveWrite(p)
  \/ ChmodConfig(p)
  \/ Kill(p)
  \/ Exit(p)

\* One terminal: commands run one after the other.
Next == Step("cli1") \/ Tick

Spec == Init /\ [][Next]_vars

(***************************************************************************)
(* Two terminals: the same commands started side by side on one host       *)
(***************************************************************************)
InitConc ==
  InitOf({Text("json5", DocChannels)}, {h \in InitHosts : h.host.platform = "linux"})

NextConc == Step("cli1") \/ Step("cli2") \/ Tick

SpecConc == InitConc /\ [][NextConc]_vars

(***************************************************************************)
(* The path tools and enablePlugin on their own: a loaded document and a   *)
(* bounded number of calls on it, each call recorded with the document it  *)
(* was applied to                                                          *)
(***************************************************************************)
\* The calls applied to one document.
MaxCalls == 2

K1 == O([apiKey |-> S("k1"), model |-> S("m1")])

K2 == O([model |-> S("m2")])

K3 == O([embedding |-> O([model |-> S("m2")])])

K4 == O([embedding |-> S("xy"), model |-> S("m1")])

K5 == O([trustedProxies |-> O([a |-> N(1)]), custom |-> N(2)])

ToolConfigs == {EmptyObj, K1, K2, K3, K4, K5}

ToolDocs == {DocEmpty, DocSignal, DocPlugins}

ToolPaths ==
  {<<"security">>, <<"gateway", "auth">>,
   <<"plugins", "entries", "memory-lancedb", "config">>}

ToolNames == {"memory-lancedb", "llm-task"}

ToolSlots == {"", "memory"}

Call(op, before, path, name, value, slot) ==
  [op |-> op, before |-> before, path |-> path, name |-> name, value |-> value,
   slot |-> slot]

InitTools ==
  /\ configFile = NoFile
  /\ perm = Perm(Absent, Absent, Absent, Absent)
  /\ backups = EmptyMap
  /\ now = 0
  /\ \E h \in InitHosts : h.host.platform = "linux" /\ host = h.host
  /\ services = {}
  /\ runs = [p \in Procs |-> 0]
  /\ \E d \in ToolDocs :
       proc = [p \in Procs |-> IF p = "cli1"
                               THEN [Idle EXCEPT !.pc = "loaded", !.config = d]
                               ELSE Idle]

\* tools.merge(path, value) inside a mutator: mergePath on the draft.
ToolsMerge(p, path, value) ==
  /\ proc[p].pc = "loaded"
  /\ Len(proc[p].queue) < MaxCalls
  /\ Set(p, [proc[p] EXCEPT
               !.config = mergePath(@, path, value),
               !.queue = Append(@, Call("merge", proc[p].config, path, "", value, ""))])
  /\ UNCHANGED <<configFile, perm, backups, now, host, services, runs>>

\* pluginManager.enablePlugin(name, pluginConfig, slot) on this.config.
ManagerEnablePlugin(p, name, pluginConfig, slot) ==
  /\ proc[p].pc = "loaded"
  /\ Len(proc[p].queue) < MaxCalls
  /\ Set(p, [proc[p] EXCEPT
               !.config = enablePlugin(@, name, pluginConfig, slot),
               !.queue = Append(@, Call("enablePlugin", proc[p].config, <<>>, name,
                                        pluginConfig, slot))])
  /\ UNCHANGED <<configFile, perm, backups, now, host, services, runs>>

\* The paths and values of the set, pushUnique and remove calls: through
\* objects, through an array, through a number, and to a missing key.
WritePaths ==
  {<<"security", "trustedProxies">>, <<"security", "trustedProxies", "extra">>,
   <<"gateway", "port", "x">>, <<"channels", "signal", "dmPolicy">>}

WriteValues == {S("127.0.0.1"), S("::1")}

\* tools.set(path, value), tools.pushUnique(path, value) or
\* tools.remove(path) inside a mutator, on the draft.
ToolsWrite(p, op, path, value) ==
  /\ proc[p].pc = "loaded"
  /\ Len(proc[p].queue) < MaxCalls
  /\ Set(p, [proc[p] EXCEPT
               !.config = CASE op = "set" -> setPath(@, path, value)
                            [] op = "pushUnique" -> pushUniquePath(@, path, value)
                            [] op = "remove" -> removePath(@, path),
               !.queue = Append(@, Call(op, proc[p].config, path, "", value, ""))])
  /\ UNCHANGED <<configFile, perm, backups, now, host, services, runs>>

NextTools ==
  \/ \E path \in ToolPaths, value \in ToolConfigs : ToolsMerge("cli1", path, value)
  \/ \E op \in {"set", "pushUnique", "remove"}, path \in WritePaths,
        value \in WriteValues : ToolsWrite("cli1", op, path, value)
  \/ \E name \in ToolNames, c \in ToolConfigs, slot \in ToolSlots :
       ManagerEnablePlugin("cli1", name, c, slot)

SpecTools == InitTools /\ [][NextTools]_vars

(***************************************************************************)
(* The HealthChecker instance on its own: one process calls runAll on the  *)
(* exported instance again and again, as tests/health-checker.test.js      *)
(* does, while the host stays as it is or is changed by its user           *)
(***************************************************************************)
\* A runAll that goes on pushing to the list of the call before.
KeepResults(results) == results

\* this.results = [] at the start of runAll.
ResetResults(results) == <<>>

\* runAll on an instance whose this.results is results: the list is reset,
\* the checks push to it and it is returned.
InstanceRunAll(results, file, p, h, running) ==
  ResetResults(results) \o runAll(file, p, h, running)

InitChecker == InitOf(InitFiles, InitHosts)

\* await healthChecker.runAll(): the returned list is recorded with the
\* state of the host the checks saw.
CheckerRunAll(p) ==
  /\ Len(proc[p].out) < MaxCalls
  /\ Set(p, Log([proc[p] EXCEPT
                   !.cmd = "runAll",
                   !.results = InstanceRunAll(@, configFile, perm, host, services)],
                [kind |-> "returned",
                 results |-> InstanceRunAll(proc[p].results, configFile, perm, host,
                                            services),
                 seen |-> <<configFile, perm, services>>]))
  /\ UNCHANGED <<configFile, perm, backups, now, host, services, runs>>

\* The user of the host changes it between two calls: restricts the config
\* file, or loads an installed service.
HostChanges ==
  /\ \/ /\ perm.config \notin {Absent, Mode600}
        /\ perm' = [perm EXCEPT !.config = Mode600]
        /\ UNCHANGED services
     \/ /\ \E i \in DOMAIN host.plists :
             /\ host.plists[i] \notin services
             /\ services' = services \cup {host.plists[i]}
        /\ UNCHANGED perm
  /\ UNCHANGED <<configFile, backups, now, host, proc, runs>>

NextChecker == CheckerRunAll("cli1") \/ HostChanges

SpecChecker == InitChecker /\ [][NextChecker]_vars

(***************************************************************************)
(* Properties                                                              *)
(***************************************************************************)
Last(seq) == seq[Len(seq)]

\* The invocation in terminal p takes the step.
Acts(p) == proc'[p] # proc[p]

\* The invocation asked for a backup of the file before its write: backup:
\* true of saveOpenClawConfig, or the wizard's backupConfig call.
RequestedBackup(r) == r.backup \/ r.cmd = "wizard"

\* C1: a config write that requested a backup of the existing file starts
\* (opens the file for writing, which destroys its content) only when the
\* backup copy was made: a failed backup copy aborts the write.
C1_FailedBackupAbortsWrite ==
  [][\A p \in Procs :
       (Acts(p) /\ proc[p].pc = "save_open" /\ configFile' # configFile
        /\ existsSync(configFile) /\ RequestedBackup(proc[p]))
       => proc[p].backupPath \in DOMAIN backups]_vars

\* C2: when an invocation is interrupted during saveOpenClawConfig, the
\* config file is neither empty (truncated) nor partially written.
C2_InterruptedSaveLeavesWholeFile ==
  [][\A p \in Procs :
       (Acts(p) /\ proc'[p].pc = "killed"
        /\ proc[p].pc \in {"save_backup", "save_open", "save_write"})
       => configFile'.kind \notin {"empty", "partial"}]_vars

\* C3: a backup file, once created, is never overwritten or modified by a
\* later save: every step leaves every existing backup as it is.
C3_BackupNeverOverwritten ==
  [][\A t \in DOMAIN backups : t \in DOMAIN backups' /\ backups'[t] = backups[t]]_vars

\* C4: a completed write of a load-mutate-save cycle leaves the file in the
\* dialect detected at load.
C4_WrittenInLoadedDialect ==
  [][\A p \in Procs :
       (Acts(p) /\ proc[p].pc = "save_write" /\ configFile'.kind \in {"json", "json5"})
       => configFile'.kind = proc[p].format]_vars

\* The commands C5 is about, run with dryRun set.
IsDryRun(r) == r.dryRun /\ r.cmd \in {"wizard", "profile", "custom", "audit"}

\* C5: no step of the plugin wizard, applySecurityProfile, the custom
\* security setup or the security audit (its fix pass included) run with
\* dryRun changes the config file's content, any permission bits or any
\* backup file.
C5_DryRunWritesNothing ==
  [][\A p \in Procs :
       (Acts(p) /\ (IsDryRun(proc[p]) \/ IsDryRun(proc'[p])))
       => (configFile' = configFile /\ perm' = perm /\ backups' = backups)]_vars

\* A dry-run audit with fix has gone through its fix pass, with findings to
\* fix, and has ended.
C5_DryRunFixPassDone ==
  \E p \in Procs :
    /\ proc[p].pc = "done" /\ proc[p].cmd = "audit" /\ proc[p].arg = "fix"
    /\ proc[p].dryRun
    /\ proc[p].out # <<>> /\ Last(proc[p].out).kind = "would fix"

\* C6: no step of a doctor run started with dry-run changes the config
\* file, any permission bits or existence of a probed path, or any service.
C6_DoctorDryRunExecutesNothing ==
  [][\A p \in Procs :
       (Acts(p) /\ proc[p].cmd = "doctor" /\ proc[p].dryRun)
       => (configFile' = configFile /\ perm' = perm /\ services' = services)]_vars

\* The merge rule as C7 and C8 state it: keys of prev that partial does not
\* name are kept, keys that partial names get partial's value, nested plain
\* objects merged by the same rule, and a prev that is absent or not a plain
\* object counts as {}.
RECURSIVE StatedMerge(_, _)
StatedMerge(prev, partial) ==
  O([k \in (IF IsPlainObject(prev) THEN DOMAIN prev.v ELSE {}) \cup DOMAIN partial.v |->
       IF k \in DOMAIN partial.v
       THEN IF IsPlainObject(partial.v[k])
            THEN StatedMerge(IF IsPlainObject(prev) /\ k \in DOMAIN prev.v
                             THEN prev.v[k] ELSE Undefined,
                             partial.v[k])
            ELSE partial.v[k]
       ELSE prev.v[k]])

\* C7: after merge(path, partial) the value at path is the previous value
\* at path merged with partial by the stated rule.
C7_MergeKeepsAndOverrides ==
  \A p \in Procs :
    (proc[p].queue # <<>> /\ proc[p].pc = "loaded" /\ Last(proc[p].queue).op = "merge")
    => getPath(proc[p].config, Last(proc[p].queue).path, Undefined)
       = StatedMerge(getPath(Last(proc[p].queue).before, Last(proc[p].queue).path,
                             Undefined),
                     Last(proc[p].queue).value)

\* plugins.entries of a document, {} when absent.
EntriesOf(doc) == OrEmpty(OptGet(Get(doc, "plugins"), "entries"))

\* plugins.slots of a document, {} when absent.
SlotsOf(doc) == OrEmpty(OptGet(Get(doc, "plugins"), "slots"))

\* C8: from a document with no entry for the plugin, enablePlugin(name, c1)
\* then enablePlugin(name, c2) leaves plugins.entries[name] equal to
\* {enabled: true, config: M}, M being c1 merged with c2 by the stated rule.
C8_EnableTwiceMerges ==
  \A p \in Procs :
    (/\ proc[p].pc = "loaded" /\ Len(proc[p].queue) = 2
     /\ proc[p].queue[1].op = "enablePlugin" /\ proc[p].queue[2].op = "enablePlugin"
     /\ proc[p].queue[1].name = proc[p].queue[2].name
     /\ ~HasKey(EntriesOf(proc[p].queue[1].before), proc[p].queue[1].name))
    => Get(EntriesOf(proc[p].config), proc[p].queue[1].name)
       = O([enabled |-> B(TRUE),
            config |-> StatedMerge(proc[p].queue[1].value, proc[p].queue[2].value)])

\* Every key of map `before` outside `except` is in `after` with the same
\* value.
KeptOutside(before, after, except) ==
  \A k \in DOMAIN before \ except : k \in DOMAIN after /\ after[k] = before[k]

\* What enablePlugin(call.name, call.value, call.slot) applied to
\* call.before must leave as it was, `doc` being the document afterwards.
EnableFrame(call, doc) ==
  /\ KeptOutside(OwnProps(call.before), OwnProps(doc), {"plugins"})
  /\ KeptOutside(OwnProps(EntriesOf(call.before)), OwnProps(EntriesOf(doc)), {call.name})
  /\ KeptOutside(OwnProps(SlotsOf(call.before)), OwnProps(SlotsOf(doc)), {call.slot})
  /\ HasKey(EntriesOf(call.before), call.name)
     => /\ KeptOutside(OwnProps(Get(EntriesOf(call.before), call.name)),
                       OwnProps(Get(EntriesOf(doc), call.name)), {"enabled", "config"})
        /\ KeptOutside(OwnProps(OrEmpty(Get(Get(EntriesOf(call.before), call.name),
                                            "config"))),
                       OwnProps(Get(Get(EntriesOf(doc), call.name), "config")),
                       DOMAIN OwnProps(call.value))

\* C9: enablePlugin(name, cfg, slot) leaves unchanged every other entry,
\* every other slot, every key outside plugins and every field of the named
\* plugin's existing entry that cfg does not specify.
C9_EnableLeavesTheRest ==
  \A p \in Procs :
    (proc[p].queue # <<>> /\ proc[p].pc = "loaded"
     /\ Last(proc[p].queue).op = "enablePlugin")
    => EnableFrame(Last(proc[p].queue), proc[p].config)

\* C10: when applySecurityProfile standard or hardened has completed (not
\* dry-run), an audit of the file finds no open DM policy.
C10_NoOpenPolicyAfterProfile ==
  \A p \in Procs :
    (/\ proc[p].pc = "done" /\ proc[p].cmd = "profile" /\ ~proc[p].dryRun
     /\ proc[p].arg \in {"standard", "hardened"}
     /\ parseOpenClawConfig(configFile).ok)
    => \A i \in DOMAIN Check1(parseOpenClawConfig(configFile).config).issues :
         Check1(parseOpenClawConfig(configFile).config).issues[i].title
         # "Open DM policy detected"

\* The DM policy of a channel as the audit reads it: dmPolicy, or dm.policy
\* when dmPolicy is absent; undefined when the channel has none.
PolicyIn(config, channel) ==
  PolicyEntry(channel, OptGet(Get(config, "channels"), channel)).policy

\* C11: the document a security configuration write (a profile, or the
\* custom setup) is about to save has, for every channel whose policy was
\* pairing or allowlist in the loaded file, the same policy; and profile
\* minimal leaves a policy open only where the channel had none or had open.
C11_ExplicitPolicyKept ==
  [][\A p \in Procs :
       (Acts(p) /\ proc'[p].pc = "save_backup" /\ proc'[p].cmd \in {"profile", "custom"})
       => \A i \in 1..Len(MutatorChannels) :
            LET before == PolicyIn(OrEmpty(UpdateLoaded(configFile, TRUE).config),
                                   MutatorChannels[i])
                after == PolicyIn(proc'[p].config, MutatorChannels[i])
            IN /\ before \in {S("pairing"), S("allowlist")} => after = before
               /\ (proc'[p].arg = "minimal" /\ after = S("open"))
                  => before \in {Undefined, S("open")}]_vars

\* The points of the DM-policy check.
DmPolicyPoints == 20

\* The audit found an open DM policy in the config it read.
AuditedOpen(r) ==
  /\ r.cmd = "audit" /\ r.pc \in {"audit_fix", "done"}
  /\ \E i \in DOMAIN Check1(r.config).issues :
       Check1(r.config).issues[i].title = "Open DM policy detected"

\* C12 as stated: an audit of a config with an open DM policy scores at
\* most 100 - 20, whether the score is read as results.score (points) or as
\* the percentage results.score / results.maxScore * 100.
C12_OpenPolicyCapsScore ==
  \A p \in Procs :
    AuditedOpen(proc[p])
    => \/ proc[p].score <= 100 - DmPolicyPoints
       \/ proc[p].score * 100 <= (100 - DmPolicyPoints) * proc[p].maxScore

\* C12: an audit of a config with an open DM policy scores at most
\* results.maxScore minus the 20 points of the DM-policy check, maxScore being
\* the points of the checks that applied on the platform.
C12_OpenPolicyCostsItsPoints ==
  \A p \in Procs :
    AuditedOpen(proc[p]) => proc[p].score <= proc[p].maxScore - DmPolicyPoints

\* An audit of a config whose only finding is the open DM policy has ended
\* with 90 of 110 points.
C12_OpenPolicyScores90 ==
  \E p \in Procs :
    AuditedOpen(proc[p]) /\ proc[p].pc = "done"
    /\ proc[p].score = 90 /\ proc[p].maxScore = 110

\* The log has an entry of one of `kinds` for the check `name`.
Reported(out, kinds, name) ==
  \E i \in DOMAIN out : out[i].kind \in kinds /\ out[i].name = name

\* C13: when a doctor --fix run has ended, a command was run only for warn or
\* fail results whose fix begins with one of the three allowed prefixes, and
\* every other warn or fail result that carries a fix is reported as not
\* auto-fixable.
C13_OnlyAllowListedFixesRun ==
  \A p \in Procs :
    (proc[p].cmd = "doctor" /\ proc[p].arg = "fix" /\ proc[p].pc = "done")
    => \A i \in DOMAIN proc[p].results :
         LET r == proc[p].results[i]
         IN /\ Reported(proc[p].out, {"fixed", "failed to fix"}, r.name)
               => AutoFixable(r)
            /\ (Fixable(r) /\ ~AutoFixable(r))
               => Reported(proc[p].out, {"not auto-fixable"}, r.name)

\* What the read-only pass of an invocation recorded.
Recorded(r) == <<r.results, r.score, r.maxScore>>

\* C14: in a doctor run and in a security audit run, a step changes
\* permission bits or services (a fix is executed) only in the fix loop,
\* which starts after the read-only pass has recorded all its results, and
\* the fix leaves the recorded results as they are: the pass itself changes
\* nothing, so no check sees the effect of a fix of the same run.
C14_FixesAfterAllChecks ==
  [][\A p \in Procs :
       (Acts(p) /\ proc'[p].cmd \in {"doctor", "audit"}
        /\ (perm' # perm \/ services' # services \/ configFile' # configFile))
       => /\ proc[p].pc \in {"doctor_fix", "audit_fix"}
          /\ Recorded(proc'[p]) = Recorded(proc[p])]_vars

\* A doctor --fix run has executed a fix, with the results of its checks
\* recorded.
C14_DoctorFixedAfterChecks ==
  \E p \in Procs :
    /\ proc[p].cmd = "doctor" /\ proc[p].arg = "fix" /\ proc[p].pc = "done"
    /\ proc[p].results # <<>>
    /\ Reported(proc[p].out, {"fixed"}, "Config Permissions")

\* The checks of runAll whose probe fails on this host: the config file
\* does not parse, the gateway or the internet probe gets no answer, the df
\* subprocess fails, the error log cannot be read.
FailedProbes(file, p, h) ==
  (IF existsSync(file) /\ ~parseOpenClawConfig(file).ok THEN {"Config Valid JSON"} ELSE {})
  \cup (IF ~h.gateway THEN {"Gateway HTTP"} ELSE {})
  \cup (IF ~h.internet THEN {"Internet Access"} ELSE {})
  \cup (IF h.disk = "error" THEN {"Disk Space"} ELSE {})
  \cup (IF p.logs # Absent /\ h.errLog = "unreadable" THEN {"Gateway Error Log"} ELSE {})

\* The categories of a result list, in the order they first appear.
CategoriesOf(results) ==
  SelectSeq([i \in 1..Len(results) |->
               IF i = 1 \/ results[i].category # results[i - 1].category
               THEN results[i].category ELSE ""],
            LAMBDA c : c # "")

\* C15: when the probe of a check fails, runAll still returns the results
\* of every category that follows, and the failure is in the returned list
\* as a warn or fail result of the affected check.
C15_ProbeFailureIsWarnOrFail ==
  \A p \in Procs :
    (proc[p].cmd = "doctor" /\ proc[p].pc \in {"doctor_fix", "done"})
    => \A name \in FailedProbes(configFile, perm, host) :
         \E i \in DOMAIN proc[p].results :
           /\ proc[p].results[i].name = name
           /\ proc[p].results[i].status \in {"warn", "fail"}

\* The part of C15 about the order: whatever probes fail, the results run
\* through the categories in the fixed order, security and logs being the
\* only ones that may add nothing.
C15_EveryCategoryStillRuns ==
  \A p \in Procs :
    (proc[p].cmd = "doctor" /\ proc[p].pc \in {"doctor_fix", "done"})
    => SelectSeq(CategoriesOf(proc[p].results),
                 LAMBDA c : c \notin {"security", "logs"})
       = <<"config", "services", "connectivity", "storage", "tools">>

\* C16: a runAll whose probe gets no answer does not block: the invocation
\* that waits for the probe can go on by itself (the probe is cut off by a
\* timeout and the check recorded), without the user interrupting it.
C16_RunAllNeverBlocks ==
  \A p \in Procs :
    (proc[p].cmd = "doctor" /\ proc[p].pc = "awaiting")
    => ENABLED (Step(p) /\ proc'[p].pc # "killed")

\* C17: two consecutive runAll calls on one HealthChecker instance that saw
\* the same config file, permission bits and services return equal result
\* lists (nothing of the earlier call is carried over), and a runAll call
\* leaves the config file, the permission bits and the services as they
\* were.
C17_RunAllRepeatable ==
  /\ [](\A p \in Procs : \A i \in DOMAIN proc[p].out :
          (i > 1 /\ proc[p].out[i].seen = proc[p].out[i - 1].seen)
          => proc[p].out[i].results = proc[p].out[i - 1].results)
  /\ [][\A p \in Procs :
          (Acts(p) /\ proc'[p].cmd = "runAll")
          => UNCHANGED <<configFile, perm, services>>]_vars

\* runAll has returned twice on an unchanged host, with results each time.
C17_TwoRunsSameHost ==
  \E p \in Procs :
    /\ proc[p].cmd = "runAll" /\ Len(proc[p].out) >= 2
    /\ proc[p].out[1].seen = proc[p].out[2].seen
    /\ proc[p].out[1].results # <<>>
    /\ proc[p].results = proc[p].out[2].results

\* C18: when an invocation's updateOpenClawConfig has written the file
\* (its save returns), the file is exactly the complete serialised
\* document of that invocation, whatever another invocation did to the
\* file in between: never a mixture of two documents.  The invocation whose
\* save returns last therefore determines the final content.  Runs in which
\* a write failed or an invocation was interrupted are left aside.
C18_LastSaverWritesWholeDocument ==
  [][\A p \in Procs :
       (/\ \A q \in Procs : proc[q].pc \notin {"failed", "killed"}
        /\ proc[p].pc = "save_write"
        /\ proc[p].cmd \in {"profile", "custom"}
        /\ proc'[p].pc = "chmod")
       => configFile' = Serialize(proc[p].config, proc[p].writeFormat)]_vars

\* C19: when the write of the config file failed during the plugin wizard,
\* the command ends in failure (it does not return as completed), no plugin
\* is reported as enabled, and the config file holds the content it had
\* before the wizard (the content of the wizard's backup copy).
C19_FailedWizardWriteEndsInFailure ==
  \A p \in Procs :
    (proc[p].cmd = "wizard" /\ Reported(proc[p].out, {"error"}, "save failed"))
    => /\ proc[p].pc # "done"
       /\ \A i \in DOMAIN proc[p].out : proc[p].out[i].kind # "enabled"
       /\ proc[p].backupPath # NoPath => configFile = backups[proc[p].backupPath]

\* C20: when restoreBackup replaces an openclaw.json that was present, a
\* pre-restore safety copy holding that file's content exists at the moment
\* the file is overwritten.
C20_SafetyCopyBeforeRestore ==
  [][\A p \in Procs :
       (/\ proc[p].pc = "restore_copy"
        /\ Acts(p)
        /\ existsSync(configFile)
        /\ configFile' # configFile)
       => /\ proc[p].backupPath \in DOMAIN backups
          /\ backups[proc[p].backupPath] = configFile]_vars

\* JSON.parse accepts the text.
StrictJson(raw) == raw.kind = "json"

\* JSON5.parse accepts the text: strict JSON, or JSON with comments,
\* trailing commas, unquoted keys, single quotes.
PermissiveJson(raw) == raw.kind \in {"json", "json5"}

\* What an invocation that loaded the file holds as its format.
LoadedFormat(p) == proc[p].format

\* C21: for every text the config file can hold, parseOpenClawConfig
\* returns format 'json' and the document when the text is strict JSON,
\* format 'json5' and the document when only the permissive parse accepts
\* it, and fails with no document when neither parse accepts it.
C21_ParseTriesStrictThenPermissive ==
  existsSync(configFile)
  => LET parsed == parseOpenClawConfig(configFile)
     IN /\ StrictJson(configFile)
           => parsed.ok /\ parsed.format = "json" /\ parsed.config = configFile.doc
        /\ (~StrictJson(configFile) /\ PermissiveJson(configFile))
           => parsed.ok /\ parsed.format = "json5" /\ parsed.config = configFile.doc
        /\ ~PermissiveJson(configFile)
           => ~parsed.ok /\ parsed.config = Undefined

\* Texts of all three kinds have been parsed: a profile loaded a JSON5 file
\* and wrote it back, and the write left a text no parser accepts.
C21_ParsedEveryKind ==
  \E p \in Procs :
    /\ proc[p].cmd = "profile" /\ LoadedFormat(p) = "json5"
    /\ proc[p].pc = "failed"
    /\ configFile = Partial
    /\ ~parseOpenClawConfig(configFile).ok

\* The categories printResults knows.
Categories ==
  {"config", "services", "connectivity", "storage", "security", "tools", "logs"}

\* A fix is null or a text (a non-empty sequence of words).
FixIsNullOrText(fix) ==
  fix = NoFix \/ (Len(fix) > 0 /\ \A i \in DOMAIN fix : fix[i] \in STRING)

RECURSIVE FrameKept(_, _, _)
FrameKept(before, after, keys) ==
  \/ keys = <<>>
  \/ before.t \notin {"obj", "arr"}
  \/ /\ \A k \in DOMAIN OwnProps(before) \ {Head(keys)} :
          /\ k \in DOMAIN OwnProps(after)
          /\ OwnProps(after)[k] = OwnProps(before)[k]
     /\ Head(keys) \in DOMAIN OwnProps(before)
        => FrameKept(OwnProps(before)[Head(keys)], Get(after, Head(keys)), Tail(keys))

\* C23: set, merge, pushUnique and remove at a path leave every value of
\* the document that is neither on the path nor below it as it was.
C23_PathWritesKeepTheRest ==
  [][\A p \in Procs :
       (/\ proc[p].pc = "loaded"
        /\ Len(proc'[p].queue) = Len(proc[p].queue) + 1
        /\ Last(proc'[p].queue).op \in {"set", "merge", "pushUnique", "remove"})
       => FrameKept(proc[p].config, proc'[p].config,
                    splitPath(Last(proc'[p].queue).path))]_vars

\* C24: whatever the permission bits of the config file are, the
\* HealthChecker's 'Config Permissions' check passes exactly when the
\* security audit's check 3 classifies the file as secure.
C24_PermissionChecksAgree ==
  (perm.config # Absent /\ host.platform # "win32")
  => (PermissionResult("Config Permissions", perm.config, ConfigPath).status = "pass")
     = checkFilePermissions(perm.config).secure

\* The invocation has audited r.config.
Audited(r) == r.cmd = "audit" /\ r.pc \in {"audit_fix", "done"}

\* The bind address is one the bind-address check accepts as loopback.
LoopbackBind(config) == Check5(config).score = Check5(config).maxScore

\* Neither gateway.trustedProxies nor security.trustedProxies is a list
\* with an entry.
NoProxyList(config) ==
  \A section \in {"gateway", "security"} :
    LET list == OptGet(OptGet(config, section), "trustedProxies")
    IN ~(IsArray(list) /\ Len(list.v) > 0)

\* C25: an audit raises 'No trusted proxies configured' only for a config
\* with no trusted-proxy list whose gateway bind address is not loopback,
\* loopback being what the bind-address check accepts as loopback.
C25_ProxyIssueOnlyOffLoopback ==
  \A p \in Procs :
    (Audited(proc[p]) /\ Check6(proc[p].config).issues # <<>>)
    => NoProxyList(proc[p].config) /\ ~LoopbackBind(proc[p].config)

\* Every member of `before` other than those named in `except` is a member
\* of `after` with the same value, and `after` has no other new member.
SameExcept(before, after, except) ==
  /\ DOMAIN OwnProps(after) \ except = DOMAIN OwnProps(before) \ except
  /\ \A k \in DOMAIN OwnProps(before) \ except :
       OwnProps(after)[k] = OwnProps(before)[k]

\* The document `after` differs from `before` only under security and in
\* the dmPolicy of channels that `before` already has.
OnlySecurityAndDmPolicy(before, after) ==
  /\ SameExcept(before, after, {"security", "channels"})
  /\ Get(before, "channels") # Get(after, "channels")
     => /\ DOMAIN OwnProps(Get(after, "channels"))
             = DOMAIN OwnProps(Get(before, "channels"))
        /\ \A c \in DOMAIN OwnProps(Get(before, "channels")) :
             Get(Get(before, "channels"), c) # Get(Get(after, "channels"), c)
             => SameExcept(Get(Get(before, "channels"), c),
                           Get(Get(after, "channels"), c), {"dmPolicy"})

\* C26: applying a security profile changes only keys under security and
\* the dmPolicy of channels already present; every other key of the
\* document, every key under gateway included, is as it was loaded.
C26_ProfileTouchesOnlySecurity ==
  [][\A p \in Procs :
       (/\ proc[p].pc = "idle"
        /\ proc'[p].cmd = "profile"
        /\ proc'[p].pc = "save_backup")
       => OnlySecurityAndDmPolicy(OrEmpty(UpdateLoaded(configFile, TRUE).config),
                                  proc'[p].config)]_vars

\* The name a fix report carries for an entry of an executor's work list: the
\* audit lists the paths its closures chmod, autoFix the results it fixes.
ReportName(r, item) == IF r.cmd = "audit" THEN item ELSE item.name

\* The step of terminal p starts command cmd with the fix option and gets
\* past the read-only pass.
StartsFixing(p, cmd) ==
  /\ proc[p].pc = "idle"
  /\ proc'[p].cmd = cmd
  /\ proc'[p].arg = "fix"
  /\ proc'[p].pc \in {"audit_fix", "doctor_fix", "done"}

\* C27: both auto-fix executors attempt every eligible fix exactly once and
\* in order, whether or not earlier fixes failed: the work list is the
\* eligible findings of the read-only pass, each iteration takes the first
\* entry off it and adds exactly one report, for that entry, of success or
\* failure (or of the dry run), and the executor goes on to the next entry or
\* ends normally; no iteration ends the command in failure.
C27_EveryFixAttemptedOnce ==
  [][\A p \in Procs :
       /\ StartsFixing(p, "audit")
          => /\ proc'[p].queue =
                  FixableIssues(AuditResults(UpdateLoaded(configFile, TRUE).config,
                                             host.platform, perm,
                                             host.apiKey # "").issues)
             /\ proc'[p].pc = "done" <=> proc'[p].queue = <<>>
       /\ StartsFixing(p, "doctor")
          => /\ proc'[p].queue =
                  SelectSeq(runAll(configFile, perm, host, services), AutoFixable)
             /\ proc'[p].pc = "done" <=> proc'[p].queue = <<>>
       /\ (proc[p].pc \in {"audit_fix", "doctor_fix"} /\ Acts(p)
           /\ proc'[p].pc # "killed")
          => /\ proc[p].queue # <<>>
             /\ proc'[p].queue = Tail(proc[p].queue)
             /\ Len(proc'[p].out) = Len(proc[p].out) + 1
             /\ SubSeq(proc'[p].out, 1, Len(proc[p].out)) = proc[p].out
             /\ Last(proc'[p].out).name = ReportName(proc[p], Head(proc[p].queue))
             /\ Last(proc'[p].out).kind \in {"fixed", "failed to fix", "would fix"}
             /\ proc'[p].pc = IF Tail(proc[p].queue) = <<>> THEN "done"
                              ELSE proc[p].pc]_vars

\* A fix has failed and a later fix of the same batch has been attempted and
\* has succeeded.
C27_FixedAfterFailedFix ==
  \E p \in Procs :
    /\ proc[p].cmd \in {"audit", "doctor"}
    /\ proc[p].pc = "done"
    /\ \E i, j \in DOMAIN proc[p].out :
         /\ i < j
         /\ proc[p].out[i].kind = "failed to fix"
         /\ proc[p].out[j].kind = "fixed"

\* The step of terminal p is an audit that gets through its read-only pass.
Audits(p) ==
  /\ proc[p].pc = "idle"
  /\ proc'[p].cmd = "audit"
  /\ proc'[p].pc \in {"audit_fix", "done"}

\* A check that counts towards maxScore earns all its points or records a
\* finding.
FullPointsOrFinding(check) ==
  check.maxScore > 0
  => check.score = check.maxScore \/ check.issues # <<>> \/ check.warnings # <<>>

\* C28: in every audit, each check that adds points to maxScore either
\* earns its full points or records an issue or a warning, so that a score
\* below maxScore comes with at least one issue or warning.
C28_LostPointsHaveAFinding ==
  [][\A p \in Procs :
       Audits(p)
       => LET config == UpdateLoaded(configFile, TRUE).config
              checks == AuditChecks(config, host.platform, perm, host.apiKey # "")
              results == AuditResults(config, host.platform, perm, host.apiKey # "")
          IN /\ \A i \in DOMAIN checks : FullPointsOrFinding(checks[i])
             /\ proc'[p].score < proc'[p].maxScore
                => results.issues # <<>> \/ results.warnings # <<>>]_vars

\* C29: in the result list of one runAll no two results have the same
\* category and name, whatever the config file holds; in particular no
\* check is reported both as passed and as failed.
C29_ResultNamesUnique ==
  \A p \in Procs :
    proc[p].cmd = "doctor"
    => \A i, j \in DOMAIN proc[p].results :
         (/\ proc[p].results[i].category = proc[p].results[j].category
          /\ proc[p].results[i].name = proc[p].results[j].name)
         => i = j

\* The names of HealthChecker's results that a chmod or mkdir fix repairs.
RepairedChecks == {"Config Permissions", ".env Permissions", "Workspace"}

\* A read-only pass of HealthChecker on the given state reports the check
\* called name, and reports it as passed.
DoctorPasses(name, file, modes, h, running) ==
  LET results == runAll(file, modes, h, running)
  IN /\ \E i \in DOMAIN results : results[i].name = name
     /\ \A i \in DOMAIN results : results[i].name = name => results[i].status = "pass"

\* A read-only pass of the audit on the given modes finds the permissions of
\* the path secure: check 3 for the config file, check 8 for the log directory.
AuditFindsSecure(path, platform, modes) ==
  LET check == IF path = "config" THEN Check3(platform, modes)
               ELSE Check8(platform, modes)
  IN check.issues = <<>> /\ check.score = check.maxScore /\ check.maxScore > 0

\* The reports of success in the output of invocation r.
FixedReports(r) == {i \in DOMAIN r.out : r.out[i].kind = "fixed"}

\* C30: once an auto-fix has reported success for a chmod or mkdir fix, a
\* read-only pass taken on the state the executor leaves, with nothing else
\* changed, reports the corresponding check as passed: HealthChecker's
\* 'Config Permissions', '.env Permissions' and 'Workspace', the audit's
\* config-file and log-directory permission findings.  It is stated of the
\* state right after each iteration of either fix loop, for the report of
\* that iteration and for those of the iterations before it.
C30_FixedChecksPassNext ==
  [][\A p \in Procs :
       (proc[p].pc \in {"audit_fix", "doctor_fix"} /\ Acts(p))
       => \A i \in FixedReports(proc'[p]) :
            IF proc[p].pc = "audit_fix"
            THEN AuditFindsSecure(proc'[p].out[i].name, host'.platform, perm')
            ELSE proc'[p].out[i].name \in RepairedChecks
                 => DoctorPasses(proc'[p].out[i].name, configFile', perm', host',
                                 services')]_vars

\* A doctor run has reported the mkdir of the workspace and the chmod of the
\* config file as done, and the next pass of the checker finds both
\* checks passed.
C30_DoctorRepairedTwoChecks ==
  \E p \in Procs :
    /\ proc[p].cmd = "doctor"
    /\ proc[p].pc = "done"
    /\ {"Workspace", "Config Permissions"}
         \subseteq {proc[p].out[i].name : i \in FixedReports(proc[p])}
    /\ DoctorPasses("Workspace", configFile, perm, host, services)
    /\ DoctorPasses("Config Permissions", configFile, perm, host, services)

====
